---- MODULE Spec2Model ----
(***************************************************************************)
(* Model of the roller firmware (firmware/src): the Device with its two    *)
(* interrupt handlers (TIMER0_COMPA -> Device::timer_interrupt and         *)
(* ADC -> Device::adc_interrupt), the ring aggregator Agg, the zone scales,*)
(* the random generator, the display buffer and the two animations.        *)
(*                                                                         *)
(* Every method of the firmware is an operator over the record `d` that    *)
(* holds the Device fields together with the peripheral registers the      *)
(* methods write.  An interrupt handler is one action: it applies the      *)
(* handler's operator to the current record and commits every field.       *)
(***************************************************************************)
EXTENDS Integers, Sequences, FiniteSets, TLC

(***************************************************************************)
(* Bounds of the model.  The window size and the tick thresholds are the   *)
(* source's constants scaled down so that every state of the device is     *)
(* reached within MaxTicks timer interrupts; the source's values are       *)
(* AGG_SIZE = 16 (main.rs:22), TICKS_TO_DISTURB = 70, TICKS_TO_BALANCE =   *)
(* 120, TICKS_TO_SLEEP = 6000 and TICKS_TO_WAKE = 20 (main.rs:116-119).    *)
(***************************************************************************)
AGG_SIZE == 2
TICKS_TO_DISTURB == 1
TICKS_TO_BALANCE == 2
TICKS_TO_SLEEP == 2
TICKS_TO_WAKE == 1
\* number of timer interrupts the model follows
MaxTicks == 10
\* largest knob position handed to the zone functions on their own
MaxPosition == 1100
\* capacity of the aggregator exercised on its own, and the puts made on it
AggCap == 3
MaxPuts == 7
\* settings passes run over a knob at rest
MaxPasses == 3
\* sweeps during which the device is shaken before it is left at rest
MaxShakes == 6

(***************************************************************************)
(* Program constants.                                                      *)
(***************************************************************************)
MIN_FORCE_AMPLITUDE == 40
RESULTS_SIZE == 20
DEAD_AREA == 10
OCR_NORMAL == 38
OCR_SLEEPING == 155
U8_MAX == 255

U16 == 2 ^ 16
U8 == 2 ^ 8

(***************************************************************************)
(* Option<T>: None is the empty sequence, Some(v) the one-element sequence.*)
(***************************************************************************)
None == <<>>
Some(v) == <<v>>
IsSome(o) == o # <<>>
Unwrap(o) == o[1]

(***************************************************************************)
(* The values the ADC can deliver.  A scene gives, for one run, the set of *)
(* values each channel can deliver at every conversion: a knob that is     *)
(* turned delivers either of two positions and a knob at rest one; an axis *)
(* that is shaken delivers its rest value or a value SHAKE above it.  The  *)
(* Z axis rests at an offset whose multiples run the low byte of the       *)
(* entropy through accepted and rejected draws.                            *)
(*   scene 1: quantity knob turned between 2 and 1, quality 6, X shaken    *)
(*   scene 2: quantity 2, quality knob turned between 20 and 12, Y shaken  *)
(*   scene 3: quantity 1, quality 4, Z shaken                              *)
(***************************************************************************)
Z_REST == 85
SHAKE == 2 ^ 8

Scenes ==
    { [quantity |-> {940, 1000}, quality |-> {700},
       x |-> {0, SHAKE}, y |-> {0}, z |-> {Z_REST}],
      [quantity |-> {940}, quality |-> {100, 250},
       x |-> {0}, y |-> {0, SHAKE}, z |-> {Z_REST}],
      [quantity |-> {1000}, quality |-> {1000},
       x |-> {0}, y |-> {0}, z |-> {Z_REST, Z_REST + SHAKE}] }

(***************************************************************************)
(* utils.rs: Agg<T, SIZE>, a ring of SIZE optional samples and the index   *)
(* of the next write.  The slots are indexed from 0 as in the source.      *)
(***************************************************************************)
Agg_new(size) ==
    [data |-> [i \in 0 .. size - 1 |-> None], next_put_at |-> 0]

Agg_len(a) == Cardinality(DOMAIN a.data)

\* put that lets the index run past the last slot
Agg_put_nowrap(a, n) ==
    [data |-> [i \in DOMAIN a.data |->
                  IF i = a.next_put_at THEN Some(n) ELSE a.data[i]],
     next_put_at |-> a.next_put_at + 1]

Agg_put(a, n) ==
    [data |-> [a.data EXCEPT ![a.next_put_at] = Some(n)],
     next_put_at |-> (a.next_put_at + 1) % Agg_len(a)]

\* the loop of sum_of_first over data[i..n), the accumulator S being u16
RECURSIVE SumLoop(_, _, _, _)
SumLoop(a, i, n, sum) ==
    IF i >= n THEN Some(sum)
    ELSE IF IsSome(a.data[i])
         THEN SumLoop(a, i + 1, n, (sum + Unwrap(a.data[i])) % U16)
         ELSE None

\* sum_of_first leaving out slot 0
Agg_sum_of_first_from1(a, n) ==
    IF n > Agg_len(a) THEN None ELSE SumLoop(a, 1, n, 0)

Agg_sum_of_first(a, n) ==
    IF n > Agg_len(a) THEN None ELSE SumLoop(a, 0, n, 0)

Agg_avg_of_first(a, n) ==
    LET sum == Agg_sum_of_first(a, n)
    IN  IF IsSome(sum) THEN Some(Unwrap(sum) \div n) ELSE None

Agg_avg_full(a) == Agg_avg_of_first(a, Agg_len(a))

\* the loop of range_of_first over data[i..n); min and max are Options
RECURSIVE RangeLoop(_, _, _, _, _)
RangeLoop(a, i, n, min, max) ==
    IF i >= n
    THEN IF IsSome(min) /\ IsSome(max)
         THEN Some(<<Unwrap(min), Unwrap(max)>>)
         ELSE None
    ELSE IF IsSome(a.data[i])
         THEN LET x == Unwrap(a.data[i])
                  min2 == IF ~IsSome(min) THEN Some(x)
                          ELSE IF x < Unwrap(min) THEN Some(x) ELSE min
                  max2 == IF ~IsSome(max) THEN Some(x)
                          ELSE IF x > Unwrap(max) THEN Some(x) ELSE max
              IN  RangeLoop(a, i + 1, n, min2, max2)
         ELSE None

Agg_range_of_first(a, n) == RangeLoop(a, 0, n, None, None)

\* amplitude_of_first with the operands of the subtraction exchanged
Agg_amplitude_of_first_minmax(a, n) ==
    LET r == Agg_range_of_first(a, n)
    IN  IF IsSome(r) THEN Some(Unwrap(r)[1] - Unwrap(r)[2]) ELSE None

Agg_amplitude_of_first(a, n) ==
    LET r == Agg_range_of_first(a, n)
    IN  IF IsSome(r) THEN Some(Unwrap(r)[2] - Unwrap(r)[1]) ELSE None

Agg_amplitude_full(a) == Agg_amplitude_of_first(a, Agg_len(a))

(***************************************************************************)
(* scales.rs: the zones of the two knobs and the zone detection.           *)
(***************************************************************************)
zone(value, start, end) == [value |-> value, start |-> start, end |-> end]

QUANTITY == <<
    zone(20, 0, 52),    zone(19, 53, 103),  zone(18, 104, 154),
    zone(17, 155, 205), zone(16, 206, 256), zone(15, 257, 307),
    zone(14, 308, 358), zone(13, 359, 409), zone(12, 410, 460),
    zone(11, 461, 511), zone(10, 512, 562), zone(9, 563, 613),
    zone(8, 614, 664),  zone(7, 665, 715),  zone(6, 716, 766),
    zone(5, 767, 817),  zone(4, 818, 868),  zone(3, 869, 919),
    zone(2, 920, 970),  zone(1, 971, 1023) >>

QUALITY == <<
    zone(20, 0, 169),  zone(12, 170, 339), zone(10, 340, 509),
    zone(8, 510, 679), zone(6, 680, 849),  zone(4, 850, 1023) >>

\* the scan of detect_zone from zones[i]; None stands for reaching panic!()
RECURSIVE DetectLoop(_, _, _)
DetectLoop(position, zones, i) ==
    IF i > Len(zones) THEN None
    ELSE IF zones[i].start <= position /\ zones[i].end >= position
         THEN Some(zones[i])
         ELSE DetectLoop(position, zones, i + 1)

\* detect_zone with zones that exclude their own start
detect_zone_open(position, zones) ==
    LET hits == {i \in 1 .. Len(zones) :
                    zones[i].start < position /\ zones[i].end >= position}
    IN  IF hits = {} THEN None
        ELSE Some(zones[CHOOSE i \in hits : \A j \in hits : i <= j])

\* Some(zone), or None where the source panics
detect_zone(position, zones) == DetectLoop(position, zones, 1)

\* u16 subtraction and addition as a release build computes them
SubU16(x, y) == (x - y + U16) % U16
AddU16(x, y) == (x + y) % U16

RECURSIVE ChangeDownLoop(_, _, _, _)
ChangeDownLoop(new_position, dead_area, all_zones, i) ==
    IF i > Len(all_zones) THEN None
    ELSE IF new_position < SubU16(all_zones[i].end, dead_area)
         THEN Some(all_zones[i])
         ELSE ChangeDownLoop(new_position, dead_area, all_zones, i + 1)

RECURSIVE ChangeUpLoop(_, _, _, _)
ChangeUpLoop(new_position, dead_area, all_zones, i) ==
    IF i < 1 THEN None
    ELSE IF new_position > AddU16(all_zones[i].start, dead_area)
         THEN Some(all_zones[i])
         ELSE ChangeUpLoop(new_position, dead_area, all_zones, i - 1)

\* detect_zone_change that already lets go at the edge of the dead area
detect_zone_change_eager(new_position, dead_area, current_zone, all_zones) ==
    IF current_zone.start > dead_area
       /\ new_position <= current_zone.start - dead_area
    THEN ChangeDownLoop(new_position, dead_area, all_zones, 1)
    ELSE IF new_position >= AddU16(current_zone.end, dead_area)
         THEN ChangeUpLoop(new_position, dead_area, all_zones, Len(all_zones))
         ELSE None

detect_zone_change(new_position, dead_area, current_zone, all_zones) ==
    IF current_zone.start > dead_area
       /\ new_position < current_zone.start - dead_area
    THEN ChangeDownLoop(new_position, dead_area, all_zones, 1)
    ELSE IF new_position > AddU16(current_zone.end, dead_area)
         THEN ChangeUpLoop(new_position, dead_area, all_zones, Len(all_zones))
         ELSE None

(***************************************************************************)
(* random.rs: the generator parameters and one draw.                       *)
(***************************************************************************)
\* bitwise AND of two bytes
RECURSIVE BitAnd(_, _)
BitAnd(x, y) ==
    IF x = 0 \/ y = 0 THEN 0
    ELSE (x % 2) * (y % 2) + 2 * BitAnd(x \div 2, y \div 2)

\* params_for that takes the rejection method for every bound
params_for_reject(bound) ==
    [bound |-> bound,
     method |-> [kind |-> "RemainderBelowLimit",
                 limit |-> U8_MAX - (U8_MAX % bound)]]

params_for(bound) ==
    [bound |-> bound,
     method |-> IF BitAnd(bound - 1, bound) = 0
                THEN [kind |-> "MaskSquareOfTwo"]
                ELSE [kind |-> "RemainderBelowLimit",
                      limit |-> U8_MAX - (U8_MAX % bound)]]

\* generate that takes a power-of-two bound only for entropy below the bound
generate_mask_strict(params, entropy) ==
    IF params.method.kind = "MaskSquareOfTwo"
    THEN IF entropy < params.bound THEN Some(entropy) ELSE None
    ELSE IF entropy <= params.method.limit
         THEN Some(entropy % params.bound)
         ELSE None

\* generate without the rejection: the plain remainder
generate_remainder(params, entropy) == Some(entropy % params.bound)

generate(params, entropy) ==
    IF params.method.kind = "MaskSquareOfTwo"
    THEN Some(entropy % params.bound)
    ELSE IF entropy <= params.method.limit
         THEN Some(entropy % params.bound)
         ELSE None

(***************************************************************************)
(* display.rs: segments, symbols, positions, the buffer and its encoders.  *)
(* A glyph is the sum of its segment bits.                                 *)
(***************************************************************************)
SEG_A == 1
SEG_B == 2
SEG_C == 4
SEG_D == 8
SEG_E == 16
SEG_F == 32
SEG_G == 64
POINT == 128

ZERO == SEG_A + SEG_B + SEG_C + SEG_D + SEG_E + SEG_F
ONE == SEG_B + SEG_C
TWO == SEG_A + SEG_B + SEG_D + SEG_E + SEG_G
THREE == SEG_A + SEG_B + SEG_C + SEG_D + SEG_G
FOUR == SEG_B + SEG_C + SEG_F + SEG_G
FIVE == SEG_A + SEG_C + SEG_D + SEG_F + SEG_G
SIX == SEG_A + SEG_C + SEG_D + SEG_E + SEG_F + SEG_G
SEVEN == SEG_A + SEG_B + SEG_C
EIGHT == SEG_A + SEG_B + SEG_C + SEG_D + SEG_E + SEG_F + SEG_G
NINE == SEG_A + SEG_B + SEG_C + SEG_D + SEG_F + SEG_G
ALPHA == SEG_A + SEG_B + SEG_C + SEG_E + SEG_F + SEG_G
DELTA == SEG_B + SEG_C + SEG_D + SEG_E + SEG_G
ECHO == SEG_A + SEG_D + SEG_E + SEG_F + SEG_G

\* symbol::MAP, the glyph of digit d is SYMBOL_MAP[d + 1]
SYMBOL_MAP == << ZERO, ONE, TWO, THREE, FOUR, FIVE, SIX, SEVEN, EIGHT, NINE >>

POS_D1 == 1
POS_D2 == 2
POS_D3 == 4
POS_D4 == 64
\* position::MAP, the bit of display i is POSITION_MAP[i + 1]
POSITION_MAP == << POS_D1, POS_D2, POS_D3, POS_D4 >>
MASK_ALL == POS_D1 + POS_D2 + POS_D3 + POS_D4

\* g | POINT
OrPoint(g) == IF (g \div POINT) % 2 = 1 THEN g ELSE g + POINT

\* the Buffer [a, b, c, e], indexed from 0 as in the source
Frame(a, b, c, e) == [i \in 0 .. 3 |-> << a, b, c, e >>[i + 1]]

empty_buffer == Frame(0, 0, 0, 0)

Display_new == [buffer |-> empty_buffer, next_index |-> 0]

\* The loop shared by encode_u16_into and encode_u8_into: the glyphs written
\* to buf[0..size), for a buffer of `len` glyphs.
RECURSIVE EncodeLoop(_, _, _, _)
EncodeLoop(n, divisor, len, out) ==
    IF ~(divisor > 0 /\ Len(out) < len) THEN out
    ELSE LET d == n \div divisor
             out2 == IF Len(out) > 0 \/ d > 0
                     THEN Append(out, SYMBOL_MAP[d + 1])
                     ELSE out
         IN  EncodeLoop(n % divisor, divisor \div 10, len, out2)

\* the glyphs an encoder leaves in buf[0..size); the rest of buf is 0
Encoded(n, divisor, len) ==
    LET out == EncodeLoop(n, divisor, len, <<>>)
    IN  IF Len(out) = 0 THEN << ZERO >> ELSE out

encode_u16_into(n) == Encoded(n, 1000, 4)
\* encode_u8_into handed a buffer of one glyph
encode_u8_into_one_glyph(n) == Encoded(n, 100, 1)

encode_u8_into(n) == Encoded(n, 100, 2)

\* buf[i] after an encoder ran: the glyph, or the 0 the encoder pads with
BufAt(enc, i) == IF i + 1 <= Len(enc) THEN enc[i + 1] ELSE 0

Display_set_number(buffer, n) ==
    LET tmp == encode_u16_into(n)
        size == Len(tmp)
        shift == 4 - size
        b == [i \in 0 .. 3 |-> IF i < shift THEN 0 ELSE tmp[i - shift + 1]]
    IN  [b EXCEPT ![3] = OrPoint(b[3])]

\* the scan of refresh: n counts 1..=4; [next_index, returned]
RECURSIVE RefreshLoop(_, _, _)
RefreshLoop(buffer, next_index, n) ==
    IF n > 4 THEN [next_index |-> next_index, returned |-> FALSE]
    ELSE IF buffer[next_index] = 0
         THEN IF n = 4
              THEN [next_index |-> (next_index + 1) % 4, returned |-> TRUE]
              ELSE RefreshLoop(buffer, (next_index + 1) % 4, n + 1)
         ELSE RefreshLoop(buffer, next_index, n + 1)

(***************************************************************************)
(* animation.rs: Spinner and BlinkingDot.                                  *)
(***************************************************************************)
SPINNER_TICKS_PER_FRAME == 8
BLINK_TICKS_VISIBLE == 25
BLINK_TICKS_HIDDEN == 500


FRAMES == <<
    Frame(SEG_A, 0, 0, 0), Frame(0, SEG_A, 0, 0), Frame(0, 0, SEG_A, 0),
    Frame(0, 0, 0, SEG_A), Frame(0, 0, 0, SEG_B), Frame(0, 0, 0, SEG_C),
    Frame(0, 0, 0, SEG_D), Frame(0, 0, SEG_D, 0), Frame(0, SEG_D, 0, 0),
    Frame(SEG_D, 0, 0, 0), Frame(SEG_E, 0, 0, 0), Frame(SEG_F, 0, 0, 0) >>

Spinner_new == [next_frame |-> 0, ticks_left |-> 0]

\* [spinner, buffer] after Spinner::advance
Spinner_advance(sp, buffer) ==
    IF sp.ticks_left > 0
    THEN [spinner |-> [sp EXCEPT !.ticks_left = sp.ticks_left - 1],
          buffer |-> buffer]
    ELSE [spinner |-> [next_frame |-> (sp.next_frame + 1) % Len(FRAMES),
                       ticks_left |-> SPINNER_TICKS_PER_FRAME - 1],
          buffer |-> FRAMES[sp.next_frame + 1]]

BlinkingDot_new == [dot_visible |-> FALSE, ticks_left |-> BLINK_TICKS_HIDDEN - 1]

(***************************************************************************)
(* The state: the fields of Device (main.rs:65-89), the peripheral         *)
(* registers its methods write, and what the model records about the last  *)
(* handler.                                                                *)
(***************************************************************************)
VARIABLES
    display,        \* Device.display: [buffer, next_index]
    state,          \* Device.state: a record tagged Displaying, Rolling or Sleeping
    quantity,       \* Device.quantity: Option<&Zone>
    quality,        \* Device.quality: Option<&Zone>
    adc_measuring,  \* Device.adc_measuring: Option<Measurement>
    acc_l1,         \* Device.acc_l1: [x, y, z] of Agg<u16, AGG_SIZE>
    acc_l2,         \* Device.acc_l2: [x, y, z] of Agg<u16, AGG_SIZE>
    pot_quantity,   \* Device.pot_quantity: Agg<u16, AGG_SIZE>
    pot_quality,    \* Device.pot_quality: Agg<u16, AGG_SIZE>
    entropy,        \* Device.entropy: Wrapping<u16>
    ocr0a,          \* TC0.ocr0a, the compare value that sets the tick rate
    portd,          \* PORTD, the segments driven
    portb,          \* the display bits of PORTB, the digits selected
    admux,          \* ADC.admux.mux, the channel being converted
    aden,           \* ADC.adcsra.aden, the converter is enabled
    adsc,           \* ADC.adcsra.adsc, a conversion is running
    halted,         \* interrupts are disabled and the program loops forever
    ticks,          \* number of timer interrupts handled so far
    calls,          \* the methods the last handler called, in call order
    pass,           \* what the last handler did if it completed accel-Z:
                    \* Some([entry, state, buffer, ocr0a]), the state when
                    \* test_pots was called and the state, the buffer and
                    \* the timer compare value when it returned; else None
    scene,          \* the values each ADC channel can deliver in this run
    arg,            \* argument of a zone function applied on its own
    ret             \* its result

vars == << display, state, quantity, quality, adc_measuring, acc_l1, acc_l2,
           pot_quantity, pot_quality, entropy, ocr0a, portd, portb, admux,
           aden, adsc, halted, ticks, calls, pass, scene, arg, ret >>

\* the record the method operators work on
Dev ==
    [display |-> display, state |-> state, quantity |-> quantity,
     quality |-> quality, adc_measuring |-> adc_measuring,
     acc_l1 |-> acc_l1, acc_l2 |-> acc_l2,
     pot_quantity |-> pot_quantity, pot_quality |-> pot_quality,
     entropy |-> entropy, ocr0a |-> ocr0a, portd |-> portd, portb |-> portb,
     admux |-> admux, aden |-> aden, adsc |-> adsc, halted |-> halted,
     calls |-> <<>>, pass |-> None]

Commit(d) ==
    /\ display' = d.display
    /\ state' = d.state
    /\ quantity' = d.quantity
    /\ quality' = d.quality
    /\ adc_measuring' = d.adc_measuring
    /\ acc_l1' = d.acc_l1
    /\ acc_l2' = d.acc_l2
    /\ pot_quantity' = d.pot_quantity
    /\ pot_quality' = d.pot_quality
    /\ entropy' = d.entropy
    /\ ocr0a' = d.ocr0a
    /\ portd' = d.portd
    /\ portb' = d.portb
    /\ admux' = d.admux
    /\ aden' = d.aden
    /\ adsc' = d.adsc
    /\ halted' = d.halted
    /\ calls' = d.calls
    /\ pass' = d.pass

Called(d, name) == [d EXCEPT !.calls = Append(@, name)]

AccLevel_new == [x |-> Agg_new(AGG_SIZE), y |-> Agg_new(AGG_SIZE), z |-> Agg_new(AGG_SIZE)]

Displaying(disturbed_ticks, idle_ticks) ==
    [tag |-> "Displaying", disturbed_ticks |-> disturbed_ticks,
     idle_ticks |-> idle_ticks]

Rolling(params, qty, results, balanced_ticks, animation) ==
    [tag |-> "Rolling", params |-> params, quantity |-> qty,
     results |-> results, balanced_ticks |-> balanced_ticks,
     animation |-> animation]

Sleeping(disturbed_ticks, animation) ==
    [tag |-> "Sleeping", disturbed_ticks |-> disturbed_ticks,
     animation |-> animation]

(***************************************************************************)
(* system.rs and the peripheral writes.                                    *)
(***************************************************************************)
fail_with_symbol(d, s) == [d EXCEPT !.portd = s, !.portb = MASK_ALL]

\* a panic handler that shows what abort shows
panic_as_abort(d) ==
    fail_with_symbol([Called(d, "panic") EXCEPT !.halted = TRUE], ALPHA)

\* the panic handler: interrupts off, "EEEE", loop {}
panic(d) == fail_with_symbol([Called(d, "panic") EXCEPT !.halted = TRUE], ECHO)

Display_force_output(d, symbol, position) ==
    [d EXCEPT !.portb = position, !.portd = symbol]

Display_refresh(d) ==
    LET r == RefreshLoop(d.display.buffer, d.display.next_index, 1)
    IN  IF r.returned
        THEN [d EXCEPT !.display.next_index = r.next_index]
        ELSE [d EXCEPT !.portb = POSITION_MAP[r.next_index + 1],
                       !.portd = d.display.buffer[r.next_index],
                       !.display.next_index = (r.next_index + 1) % 4]

\* BlinkingDot::advance on the animation of the Sleeping state
BlinkingDot_advance(d) ==
    LET an == d.state.animation
    IN  IF an.ticks_left > 0
        THEN [d EXCEPT !.state.animation.ticks_left = an.ticks_left - 1]
        ELSE IF an.dot_visible
             THEN Display_force_output(
                      [d EXCEPT !.state.animation =
                          [dot_visible |-> FALSE,
                           ticks_left |-> BLINK_TICKS_HIDDEN - 1]], 0, 0)
             ELSE Display_force_output(
                      [d EXCEPT !.state.animation =
                          [dot_visible |-> TRUE,
                           ticks_left |-> BLINK_TICKS_VISIBLE - 1]], POINT, POS_D4)

timer_set_normal(d) ==
    [Called(d, "timer_set_normal") EXCEPT !.ocr0a = OCR_NORMAL]
timer_set_sleeping(d) ==
    [Called(d, "timer_set_sleeping") EXCEPT !.ocr0a = OCR_SLEEPING]

(***************************************************************************)
(* main.rs: the state transitions.                                         *)
(***************************************************************************)
\* enter_rolling that leaves the timer as it is
enter_rolling_keep_rate(d, qty, qlty) ==
    [Called(d, "enter_rolling") EXCEPT
        !.state = Rolling(params_for(qlty), qty, Agg_new(RESULTS_SIZE), 0,
                          Spinner_new)]

enter_rolling(d, qty, qlty) ==
    LET d1 == Called(d, "enter_rolling")
        d2 == IF d1.state.tag = "Sleeping" THEN timer_set_normal(d1) ELSE d1
    IN  [d2 EXCEPT !.state = Rolling(params_for(qlty), qty,
                                     Agg_new(RESULTS_SIZE), 0, Spinner_new)]

\* enter_displaying that leaves the timer as it is
enter_displaying_keep_rate(d) ==
    [Called(d, "enter_displaying") EXCEPT !.state = Displaying(0, 0)]

enter_displaying(d) ==
    LET d1 == Called(d, "enter_displaying")
        d2 == IF d1.state.tag = "Sleeping" THEN timer_set_normal(d1) ELSE d1
    IN  [d2 EXCEPT !.state = Displaying(0, 0)]

\* enter_sleeping that leaves the display driven
enter_sleeping_display_on(d) ==
    [timer_set_sleeping(Called(d, "enter_sleeping")) EXCEPT
        !.state = Sleeping(0, BlinkingDot_new)]

enter_sleeping(d) ==
    LET d1 == timer_set_sleeping(Called(d, "enter_sleeping"))
        d2 == [d1 EXCEPT !.state = Sleeping(0, BlinkingDot_new)]
    IN  Display_force_output(d2, 0, 0)

\* acc_has_been_disturbed that takes no notice of the Z axis
acc_has_been_disturbed_xy(ax, ay, az) ==
    ax >= MIN_FORCE_AMPLITUDE \/ ay >= MIN_FORCE_AMPLITUDE

acc_has_been_disturbed(ax, ay, az) ==
    ax >= MIN_FORCE_AMPLITUDE \/ ay >= MIN_FORCE_AMPLITUDE
        \/ az >= MIN_FORCE_AMPLITUDE

\* acc_has_been_balanced asking for one quiet axis instead of three
acc_has_been_balanced_any(ax, ay, az) ==
    ax < MIN_FORCE_AMPLITUDE \/ ay < MIN_FORCE_AMPLITUDE
        \/ az < MIN_FORCE_AMPLITUDE

acc_has_been_balanced(ax, ay, az) ==
    ax < MIN_FORCE_AMPLITUDE /\ ay < MIN_FORCE_AMPLITUDE
        /\ az < MIN_FORCE_AMPLITUDE

(***************************************************************************)
(* main.rs: settings evaluation.                                           *)
(***************************************************************************)
\* test_pot that makes no first selection
test_pot_never_initial(pos, current, scale) ==
    LET avg == Agg_avg_full(pos)
    IN  IF ~IsSome(avg) THEN [panicked |-> FALSE, zone |-> None]
        ELSE IF IsSome(current)
             THEN [panicked |-> FALSE,
                   zone |-> detect_zone_change(Unwrap(avg), DEAD_AREA,
                                               Unwrap(current), scale)]
             ELSE [panicked |-> FALSE, zone |-> None]

\* test_pot that settles for the first sample instead of a full window
test_pot_first_sample(pos, current, scale) ==
    LET avg == Agg_avg_of_first(pos, 1)
    IN  IF ~IsSome(avg) THEN [panicked |-> FALSE, zone |-> None]
        ELSE IF IsSome(current)
             THEN [panicked |-> FALSE,
                   zone |-> detect_zone_change(Unwrap(avg), DEAD_AREA,
                                               Unwrap(current), scale)]
             ELSE LET z == detect_zone(Unwrap(avg), scale)
                  IN  [panicked |-> ~IsSome(z), zone |-> z]

\* [panicked, zone]: zone is the Option the source returns
test_pot(pos, current, scale) ==
    LET avg == Agg_avg_full(pos)
    IN  IF ~IsSome(avg) THEN [panicked |-> FALSE, zone |-> None]
        ELSE IF IsSome(current)
             THEN [panicked |-> FALSE,
                   zone |-> detect_zone_change(Unwrap(avg), DEAD_AREA,
                                               Unwrap(current), scale)]
             ELSE LET z == detect_zone(Unwrap(avg), scale)
                  IN  [panicked |-> ~IsSome(z), zone |-> z]

\* render_settings writing the quality first
render_settings_swapped(d, qty, qlty) ==
    [Called(d, "render_settings") EXCEPT
        !.display.buffer = Frame(0, BufAt(encode_u8_into(qlty), 0), DELTA,
                                 BufAt(encode_u8_into(qty), 0))]

render_settings(d, qty, qlty) ==
    LET d1 == Called(d, "render_settings")
        quantity_buf == encode_u8_into(qty)
        quantity_len == Len(quantity_buf)
        quality_buf == encode_u8_into(qlty)
        quality_len == Len(quality_buf)
        lens == << quantity_len, quality_len >>
        Put(a, b, c, e) == [d1 EXCEPT !.display.buffer = Frame(a, b, c, e)]
    IN  IF lens = << 1, 1 >>
        THEN Put(0, BufAt(quantity_buf, 0), DELTA, BufAt(quality_buf, 0))
        ELSE IF lens = << 2, 1 >>
        THEN Put(BufAt(quantity_buf, 0), BufAt(quantity_buf, 1), DELTA,
                 BufAt(quality_buf, 0))
        ELSE IF lens = << 1, 2 >>
        THEN Put(BufAt(quantity_buf, 0), DELTA, BufAt(quality_buf, 0),
                 BufAt(quality_buf, 1))
        ELSE IF lens = << 2, 2 >>
        THEN Put(BufAt(quantity_buf, 0), OrPoint(BufAt(quantity_buf, 1)),
                 BufAt(quality_buf, 0), BufAt(quality_buf, 1))
        ELSE panic(d1)

\* test_pots that renders a changed selection without leaving the state
test_pots_stay(d) ==
    LET d0 == Called(d, "test_pots")
        p1 == test_pot(d0.pot_quantity, d0.quantity, QUANTITY)
        d1 == IF IsSome(p1.zone) THEN [d0 EXCEPT !.quantity = p1.zone] ELSE d0
        p2 == test_pot(d1.pot_quality, d1.quality, QUALITY)
        d2 == IF IsSome(p2.zone) THEN [d1 EXCEPT !.quality = p2.zone] ELSE d1
        render == IsSome(p1.zone) \/ IsSome(p2.zone)
    IN  IF p1.panicked THEN panic(d0)
        ELSE IF p2.panicked THEN panic(d1)
        ELSE IF ~render THEN d2
        ELSE IF IsSome(d2.quantity) /\ IsSome(d2.quality)
             THEN render_settings(d2, Unwrap(d2.quantity).value,
                                  Unwrap(d2.quality).value)
             ELSE d2

\* test_pots that renders the settings in every pass
test_pots_always_render(d) ==
    LET d0 == Called(d, "test_pots")
        p1 == test_pot(d0.pot_quantity, d0.quantity, QUANTITY)
        d1 == IF IsSome(p1.zone) THEN [d0 EXCEPT !.quantity = p1.zone] ELSE d0
        p2 == test_pot(d1.pot_quality, d1.quality, QUALITY)
        d2 == IF IsSome(p2.zone) THEN [d1 EXCEPT !.quality = p2.zone] ELSE d1
    IN  IF p1.panicked THEN panic(d0)
        ELSE IF p2.panicked THEN panic(d1)
        ELSE IF IsSome(d2.quantity) /\ IsSome(d2.quality)
             THEN render_settings(enter_displaying(d2),
                                  Unwrap(d2.quantity).value,
                                  Unwrap(d2.quality).value)
             ELSE d2

test_pots(d) ==
    LET d0 == Called(d, "test_pots")
        p1 == test_pot(d0.pot_quantity, d0.quantity, QUANTITY)
        d1 == IF IsSome(p1.zone) THEN [d0 EXCEPT !.quantity = p1.zone] ELSE d0
        p2 == test_pot(d1.pot_quality, d1.quality, QUALITY)
        d2 == IF IsSome(p2.zone) THEN [d1 EXCEPT !.quality = p2.zone] ELSE d1
        render == IsSome(p1.zone) \/ IsSome(p2.zone)
    IN  IF p1.panicked THEN panic(d0)
        ELSE IF p2.panicked THEN panic(d1)
        ELSE IF ~render THEN d2
        ELSE IF IsSome(d2.quantity) /\ IsSome(d2.quality)
             THEN render_settings(enter_displaying(d2),
                                  Unwrap(d2.quantity).value,
                                  Unwrap(d2.quality).value)
             ELSE d2

(***************************************************************************)
(* main.rs: motion evaluation.  The tick counters are u8 and u16; `+= 1`   *)
(* is the wrapping addition of a release build.                            *)
(***************************************************************************)
test_acceleration(d) ==
    LET d0 == Called(d, "test_acceleration")
        ax == Agg_amplitude_full(d0.acc_l2.x)
        ay == Agg_amplitude_full(d0.acc_l2.y)
        az == Agg_amplitude_full(d0.acc_l2.z)
        st == d0.state
        known == IsSome(d0.quantity) /\ IsSome(d0.quality)
    IN  IF ~(IsSome(ax) /\ IsSome(ay) /\ IsSome(az)) THEN d0
        ELSE IF st.tag = "Displaying"
        THEN IF acc_has_been_balanced(Unwrap(ax), Unwrap(ay), Unwrap(az))
             THEN LET idle == (st.idle_ticks + 1) % U16
                      d1 == [d0 EXCEPT !.state = Displaying(0, idle)]
                  IN  IF idle > TICKS_TO_SLEEP THEN enter_sleeping(d1) ELSE d1
             ELSE LET disturbed == (st.disturbed_ticks + 1) % U8
                      d1 == [d0 EXCEPT !.state = Displaying(disturbed, 0)]
                  IN  IF disturbed > TICKS_TO_DISTURB /\ known
                      THEN enter_rolling(d1, Unwrap(d1.quantity).value,
                                         Unwrap(d1.quality).value)
                      ELSE d1
        ELSE IF st.tag = "Rolling"
        THEN IF acc_has_been_disturbed(Unwrap(ax), Unwrap(ay), Unwrap(az))
             THEN [d0 EXCEPT !.state.balanced_ticks = 0]
             ELSE LET balanced == (st.balanced_ticks + 1) % U8
                      d1 == [d0 EXCEPT !.state.balanced_ticks = balanced]
                      sum == Agg_sum_of_first(st.results, st.quantity)
                  IN  IF balanced >= TICKS_TO_BALANCE /\ IsSome(sum)
                      THEN enter_displaying(
                               [d1 EXCEPT !.display.buffer =
                                   Display_set_number(@, Unwrap(sum))])
                      ELSE d1
        ELSE IF acc_has_been_balanced(Unwrap(ax), Unwrap(ay), Unwrap(az))
             THEN [d0 EXCEPT !.state.disturbed_ticks = 0]
             ELSE LET disturbed == (st.disturbed_ticks + 1) % U8
                      d1 == [d0 EXCEPT !.state.disturbed_ticks = disturbed]
                  IN  IF disturbed > TICKS_TO_WAKE /\ known
                      THEN enter_rolling(d1, Unwrap(d1.quantity).value,
                                         Unwrap(d1.quality).value)
                      ELSE d1

(***************************************************************************)
(* main.rs: the sampling sweep and the two interrupt handlers.             *)
(***************************************************************************)
Measurements == << "PotQuantity", "PotQuality", "AccX", "AccY", "AccZ" >>

\* Channel with the X and Y axes wired the other way round
Channel_swapped(m) ==
    CASE m = "AccX" -> "ADC1"
      [] m = "AccY" -> "ADC0"
      [] m = "AccZ" -> "ADC2"
      [] m = "PotQuantity" -> "ADC3"
      [] m = "PotQuality" -> "ADC4"

\* the ADC channel each measurement is wired to
Channel(m) ==
    CASE m = "AccX" -> "ADC0"
      [] m = "AccY" -> "ADC1"
      [] m = "AccZ" -> "ADC2"
      [] m = "PotQuantity" -> "ADC3"
      [] m = "PotQuality" -> "ADC4"

\* adc_start without the check for a measurement in flight
adc_start_unchecked(d, m) ==
    [Called(d, "adc_start") EXCEPT !.adc_measuring = Some(m),
                                   !.admux = Channel(m),
                                   !.aden = TRUE, !.adsc = TRUE]

adc_start(d, m) ==
    LET d0 == Called(d, "adc_start")
    IN  IF IsSome(d0.adc_measuring) THEN panic(d0)
        ELSE [d0 EXCEPT !.adc_measuring = Some(m), !.admux = Channel(m),
                        !.aden = TRUE, !.adsc = TRUE]

\* AccPut that hands level 2 one average per completed level-1 window
AccPut_windowed(d, axis, result) ==
    LET l1 == Agg_put(d.acc_l1[axis], result)
        avg == Agg_avg_full(l1)
    IN  [d EXCEPT !.acc_l1[axis] = l1,
                  !.acc_l2[axis] = IF IsSome(avg) /\ l1.next_put_at = 0
                                   THEN Agg_put(@, Unwrap(avg)) ELSE @]

\* put the sample into level 1 and, when level 1 is full, its average into
\* level 2
AccPut(d, axis, result) ==
    LET l1 == Agg_put(d.acc_l1[axis], result)
        avg == Agg_avg_full(l1)
    IN  [d EXCEPT !.acc_l1[axis] = l1,
                  !.acc_l2[axis] = IF IsSome(avg)
                                   THEN Agg_put(@, Unwrap(avg)) ELSE @]

\* adc_ready that feeds every conversion result into the entropy
adc_ready_all_entropy(d, m, result) ==
    LET d0 == Called(d, "adc_ready")
        d1 == [d0 EXCEPT !.entropy = (@ + result) % U16]
    IN  CASE m = "PotQuantity" ->
                adc_start([d1 EXCEPT !.pot_quantity = Agg_put(@, result)],
                          "PotQuality")
          [] m = "PotQuality" ->
                adc_start([d1 EXCEPT !.pot_quality = Agg_put(@, result)],
                          "AccX")
          [] m = "AccX" -> adc_start(AccPut(d1, "x", result), "AccY")
          [] m = "AccY" -> adc_start(AccPut(d1, "y", result), "AccZ")
          [] m = "AccZ" ->
                LET d2 == [AccPut(d1, "z", result) EXCEPT !.aden = FALSE]
                    d3 == test_pots(d2)
                    d4 == [d3 EXCEPT !.pass =
                              Some([entry |-> d2.state,
                                    state |-> d3.state,
                                    buffer |-> d3.display.buffer,
                                    ocr0a |-> d3.ocr0a])]
                IN  IF d4.halted THEN d4 ELSE test_acceleration(d4)

adc_ready(d, m, result) ==
    LET d0 == Called(d, "adc_ready")
        d1 == IF m \in {"AccX", "AccY", "AccZ"}
              THEN [d0 EXCEPT !.entropy = (@ + result) % U16]
              ELSE d0
    IN  CASE m = "PotQuantity" ->
                adc_start([d1 EXCEPT !.pot_quantity = Agg_put(@, result)],
                          "PotQuality")
          [] m = "PotQuality" ->
                adc_start([d1 EXCEPT !.pot_quality = Agg_put(@, result)],
                          "AccX")
          [] m = "AccX" -> adc_start(AccPut(d1, "x", result), "AccY")
          [] m = "AccY" -> adc_start(AccPut(d1, "y", result), "AccZ")
          [] m = "AccZ" ->
                LET d2 == [AccPut(d1, "z", result) EXCEPT !.aden = FALSE]
                    d3 == test_pots(d2)
                    d4 == [d3 EXCEPT !.pass =
                              Some([entry |-> d2.state,
                                    state |-> d3.state,
                                    buffer |-> d3.display.buffer,
                                    ocr0a |-> d3.ocr0a])]
                IN  IF d4.halted THEN d4 ELSE test_acceleration(d4)

\* adc_interrupt that reads the marker without taking it
adc_interrupt_keep_marker(d, bits) ==
    LET d0 == Called(d, "adc_interrupt")
        m == d0.adc_measuring
    IN  IF IsSome(m) THEN adc_ready(d0, Unwrap(m), bits) ELSE d0

adc_interrupt(d, bits) ==
    LET d0 == Called(d, "adc_interrupt")
        m == d0.adc_measuring
        d1 == [d0 EXCEPT !.adc_measuring = None]
    IN  IF IsSome(m) THEN adc_ready(d1, Unwrap(m), bits) ELSE d1

\* timer_interrupt that stores the draw as generated, from 0
timer_interrupt_zero_based(d) ==
    LET d0 == Called(d, "timer_interrupt")
        st == d0.state
        d1 == IF st.tag = "Rolling"
              THEN LET sp == Spinner_advance(st.animation, d0.display.buffer)
                       rnd == generate(st.params, d0.entropy % U8)
                       dg == Called(d0, "generate")
                   IN  [dg EXCEPT
                           !.display.buffer = sp.buffer,
                           !.state.animation = sp.spinner,
                           !.state.results = IF IsSome(rnd)
                                             THEN Agg_put(@, Unwrap(rnd))
                                             ELSE @]
              ELSE IF st.tag = "Sleeping" THEN BlinkingDot_advance(d0)
              ELSE d0
        d2 == IF d1.state.tag # "Sleeping" THEN Display_refresh(d1) ELSE d1
    IN  adc_start(d2, "PotQuantity")

timer_interrupt(d) ==
    LET d0 == Called(d, "timer_interrupt")
        st == d0.state
        d1 == IF st.tag = "Rolling"
              THEN LET sp == Spinner_advance(st.animation, d0.display.buffer)
                       rnd == generate(st.params, d0.entropy % U8)
                       dg == Called(d0, "generate")
                   IN  [dg EXCEPT
                           !.display.buffer = sp.buffer,
                           !.state.animation = sp.spinner,
                           !.state.results = IF IsSome(rnd)
                                             THEN Agg_put(@, Unwrap(rnd) + 1)
                                             ELSE @]
              ELSE IF st.tag = "Sleeping" THEN BlinkingDot_advance(d0)
              ELSE d0
        d2 == IF d1.state.tag # "Sleeping" THEN Display_refresh(d1) ELSE d1
    IN  adc_start(d2, "PotQuantity")

(***************************************************************************)
(* The device after Device::new() and Device::initialize().                *)
(***************************************************************************)
DeviceInit ==
    /\ display = Display_new
    /\ state = Displaying(0, 0)
    /\ quantity = None
    /\ quality = None
    /\ adc_measuring = None
    /\ acc_l1 = AccLevel_new
    /\ acc_l2 = AccLevel_new
    /\ pot_quantity = Agg_new(AGG_SIZE)
    /\ pot_quality = Agg_new(AGG_SIZE)
    /\ entropy = 0
    /\ ocr0a = OCR_NORMAL
    /\ portd = 0
    /\ portb = 0
    /\ admux = "ADC0"
    /\ aden = FALSE
    /\ adsc = FALSE
    /\ halted = FALSE
    /\ ticks = 0
    /\ calls = <<>>
    /\ pass = None

Init ==
    /\ DeviceInit
    /\ scene \in Scenes
    /\ arg = <<>>
    /\ ret = <<>>

\* what the converter can deliver on a channel
Samples(chan) ==
    CASE chan = "ADC0" -> scene.x
      [] chan = "ADC1" -> scene.y
      [] chan = "ADC2" -> scene.z
      [] chan = "ADC3" -> scene.quantity
      [] chan = "ADC4" -> scene.quality

\* the timer compare interrupt
TIMER0_COMPA ==
    /\ ~halted
    /\ ticks < MaxTicks
    /\ Commit(timer_interrupt(Dev))
    /\ ticks' = ticks + 1
    /\ UNCHANGED << scene, arg, ret >>

\* the conversion-complete interrupt: the running conversion ends (the
\* hardware clears ADSC) with a value of the selected channel
ADC ==
    /\ ~halted
    /\ adsc
    /\ \E bits \in Samples(admux) :
           Commit(adc_interrupt([Dev EXCEPT !.adsc = FALSE], bits))
    /\ UNCHANGED << ticks, scene, arg, ret >>

Next == TIMER0_COMPA \/ ADC

Spec == Init /\ [][Next]_vars

(***************************************************************************)
(* The device when every conversion completes within the tick period: the  *)
(* timer interrupt is handled only while no conversion is running.         *)
(***************************************************************************)
TimelyTick ==
    /\ ~adsc
    /\ TIMER0_COMPA

NextTimely == TimelyTick \/ ADC

SpecTimely == Init /\ [][NextTimely]_vars

(***************************************************************************)
(* The device left at rest after a shake, run without an end.  Both knobs  *)
(* stay where they are (2 dice; 20, 8 or 4 sides).  The X and Y axes deliver  *)
(* 0; the Z axis delivers JOLT during the first arg.shakes sweeps and 0    *)
(* from then on, so that the step back to 0 is the disturbance that starts *)
(* a roll and the entropy accumulator stands at arg.shakes * JOLT while    *)
(* the device rests.  Every conversion completes before the next tick.     *)
(* The tick count stops at MaxTicks.  Both interrupts keep occurring: the   *)
(* timer fires again while the device runs, and a running conversion       *)
(* completes.  A step of LongTick is the step that sets ADSC, a step of    *)
(* LongADC the step that replaces the in-flight marker; the fairness       *)
(* conditions are stated on these two marks.                               *)
(***************************************************************************)
JOLT == 253

LongScenes ==
    { [quantity |-> {940}, quality |-> {q}, x |-> {0}, y |-> {0},
       z |-> {0, JOLT}] : q \in {100, 600, 1000} }

InitLong ==
    /\ DeviceInit
    /\ scene \in LongScenes
    /\ arg \in [shakes : 0 .. MaxShakes]
    /\ ret = <<>>

LongTick ==
    /\ ~halted
    /\ ~adsc
    /\ Commit(timer_interrupt(Dev))
    /\ ticks' = IF ticks < MaxTicks THEN ticks + 1 ELSE ticks
    /\ UNCHANGED << scene, arg, ret >>

LongADC ==
    /\ ~halted
    /\ adsc
    /\ LET shaken == admux = "ADC2" /\ arg.shakes > 0
           bits == IF admux = "ADC2"
                   THEN IF shaken THEN JOLT ELSE 0
                   ELSE CHOOSE v \in Samples(admux) : TRUE
       IN  /\ Commit(adc_interrupt([Dev EXCEPT !.adsc = FALSE], bits))
           /\ arg' = IF shaken THEN [shakes |-> arg.shakes - 1] ELSE arg
    /\ UNCHANGED << ticks, scene, ret >>

NextLong == LongTick \/ LongADC

TickOccurs ==
    /\ ~halted
    /\ ~adsc
    /\ adsc' = TRUE

AdcOccurs ==
    /\ ~halted
    /\ adsc
    /\ \E m \in {None} \cup {Some(Measurements[i]) : i \in 1 .. Len(Measurements)} :
          /\ m # adc_measuring
          /\ adc_measuring' = m

SpecLong ==
    /\ InitLong
    /\ [][NextLong]_vars
    /\ WF_adsc(TickOccurs)
    /\ WF_adc_measuring(AdcOccurs)

(***************************************************************************)
(* The zone functions on their own: detect_zone applied to every position  *)
(* up to MaxPosition on either scale.  The device stays as constructed.    *)
(***************************************************************************)
ScaleNames == {"QUANTITY", "QUALITY"}
Scale(name) == IF name = "QUANTITY" THEN QUANTITY ELSE QUALITY

InitZones ==
    /\ DeviceInit
    /\ scene = CHOOSE sc \in Scenes : TRUE
    /\ arg \in [position : 0 .. MaxPosition, scale : ScaleNames]
    /\ ret = <<>>

\* ret holds the Option detect_zone returns, None standing for its panic
ApplyDetectZone ==
    /\ ret = <<>>
    /\ ret' = << detect_zone(arg.position, Scale(arg.scale)) >>
    /\ UNCHANGED << display, state, quantity, quality, adc_measuring, acc_l1,
                    acc_l2, pot_quantity, pot_quality, entropy, ocr0a, portd,
                    portb, admux, aden, adsc, halted, ticks, calls, pass,
                    scene, arg >>

NextZones == ApplyDetectZone

SpecZones == InitZones /\ [][NextZones]_vars

(***************************************************************************)
(* One conversion-complete interrupt on its own: the converter was started *)
(* for a measurement (as adc_start leaves it) with the entropy accumulator *)
(* anywhere in its range, the top included, and delivers one result.       *)
(* arg keeps the measurement and the accumulator before the interrupt,     *)
(* ret the result delivered.                                               *)
(***************************************************************************)
EntropyValues == {0, 1, 1000, U16 - 1023, U16 - 256, U16 - 1}
ResultValues == {0, 1, 255, 1023}

InitEntropy ==
    /\ display = Display_new
    /\ state = Displaying(0, 0)
    /\ quantity = None
    /\ quality = None
    /\ acc_l1 = AccLevel_new
    /\ acc_l2 = AccLevel_new
    /\ pot_quantity = Agg_new(AGG_SIZE)
    /\ pot_quality = Agg_new(AGG_SIZE)
    /\ ocr0a = OCR_NORMAL
    /\ portd = 0
    /\ portb = 0
    /\ halted = FALSE
    /\ ticks = 0
    /\ calls = <<>>
    /\ pass = None
    /\ scene = CHOOSE sc \in Scenes : TRUE
    /\ \E i \in 1 .. Len(Measurements), e \in EntropyValues :
          /\ adc_measuring = Some(Measurements[i])
          /\ admux = Channel(Measurements[i])
          /\ aden = TRUE
          /\ adsc = TRUE
          /\ entropy = e
          /\ arg = [m |-> Measurements[i], entropy |-> e]
    /\ ret = <<>>

ApplyAdcInterrupt ==
    /\ ret = <<>>
    /\ adsc
    /\ \E bits \in ResultValues :
          /\ Commit(adc_interrupt([Dev EXCEPT !.adsc = FALSE], bits))
          /\ ret' = << bits >>
    /\ UNCHANGED << ticks, scene, arg >>

NextEntropy == ApplyAdcInterrupt

SpecEntropy == InitEntropy /\ [][NextEntropy]_vars

(***************************************************************************)
(* The settings pass over a knob at rest: the window of one knob is full   *)
(* of one position p, its selection is any zone of its scale or not yet    *)
(* made, and test_pots runs MaxPasses times.  The other knob rests in the  *)
(* middle of its first zone (selected already, unless the knob under test  *)
(* has no selection yet: the two selections are first made in one pass).   *)
(* arg names the knob, the position and the selection at the start; ret    *)
(* lists, per pass, what test_pot reported for the knob and whether the    *)
(* pass called enter_displaying.                                           *)
(***************************************************************************)
StillWindow(p) ==
    [data |-> [i \in 0 .. AGG_SIZE - 1 |-> Some(p)], next_put_at |-> 0]
Middle(z) == (z.start + z.end) \div 2

InitKnobStill ==
    /\ display = Display_new
    /\ state = Displaying(0, 0)
    /\ adc_measuring = None
    /\ acc_l1 = AccLevel_new
    /\ acc_l2 = AccLevel_new
    /\ entropy = 0
    /\ ocr0a = OCR_NORMAL
    /\ portd = 0
    /\ portb = 0
    /\ admux = "ADC2"
    /\ aden = FALSE
    /\ adsc = FALSE
    /\ halted = FALSE
    /\ ticks = 0
    /\ calls = <<>>
    /\ pass = None
    /\ scene = CHOOSE sc \in Scenes : TRUE
    /\ \E name \in ScaleNames, i \in 0 .. Len(QUANTITY),
          p \in 0 .. QUANTITY[Len(QUANTITY)].end :
          /\ i <= Len(Scale(name))
          /\ arg = [position |-> p, scale |-> name, current |-> i]
          /\ IF name = "QUANTITY"
             THEN /\ pot_quantity = StillWindow(p)
                  /\ quantity = IF i = 0 THEN None ELSE Some(QUANTITY[i])
                  /\ pot_quality = StillWindow(Middle(QUALITY[1]))
                  /\ quality = IF i = 0 THEN None ELSE Some(QUALITY[1])
             ELSE /\ pot_quality = StillWindow(p)
                  /\ quality = IF i = 0 THEN None ELSE Some(QUALITY[i])
                  /\ pot_quantity = StillWindow(Middle(QUANTITY[1]))
                  /\ quantity = IF i = 0 THEN None ELSE Some(QUANTITY[1])
    /\ ret = <<>>

ApplyTestPots ==
    /\ Len(ret) < MaxPasses
    /\ ~halted
    /\ LET d == test_pots(Dev)
           reported == IF arg.scale = "QUANTITY"
                       THEN test_pot(pot_quantity, quantity, QUANTITY).zone
                       ELSE test_pot(pot_quality, quality, QUALITY).zone
       IN  /\ Commit(d)
           /\ ret' = Append(ret,
                       [reported |-> reported,
                        displaying |->
                            \E c \in 1 .. Len(d.calls) :
                                d.calls[c] = "enter_displaying"])
    /\ UNCHANGED << ticks, scene, arg >>

NextKnobStill == ApplyTestPots

SpecKnobStill == InitKnobStill /\ [][NextKnobStill]_vars

(***************************************************************************)
(* render_settings on its own: called on the device as constructed with    *)
(* every value of a quantity zone and every value of a quality zone.  arg  *)
(* is the pair of values; ret holds the two digit counts encode_u8_into    *)
(* returned.                                                               *)
(***************************************************************************)
ZoneValues(zones) == {zones[i].value : i \in 1 .. Len(zones)}

InitSettings ==
    /\ DeviceInit
    /\ scene = CHOOSE sc \in Scenes : TRUE
    /\ \E qty \in ZoneValues(QUANTITY), qlty \in ZoneValues(QUALITY) :
          arg = [quantity |-> qty, quality |-> qlty]
    /\ ret = <<>>

ApplyRenderSettings ==
    /\ ret = <<>>
    /\ Commit(render_settings(Dev, arg.quantity, arg.quality))
    /\ ret' = << Len(encode_u8_into(arg.quantity)),
                 Len(encode_u8_into(arg.quality)) >>
    /\ UNCHANGED << ticks, scene, arg >>

NextSettings == ApplyRenderSettings

SpecSettings == InitSettings /\ [][NextSettings]_vars

(***************************************************************************)
(* The two fatal call sites on their own.  arg is the situation: the       *)
(* measurement in flight, the measurement adc_start is asked to start and  *)
(* the number on the display.  ret collects, per call site, what the       *)
(* frozen device drives on the segment and digit ports.  The device itself *)
(* is left as constructed so that both sites can be observed in one run.   *)
(***************************************************************************)
ShownNumbers == {0, 7, 20}

Situation ==
    [Dev EXCEPT !.adc_measuring = Some(arg.in_flight),
                !.display.buffer = Display_set_number(@, arg.shown)]

Frozen(site, d) ==
    [site |-> site, halted |-> d.halted, segments |-> d.portd,
     digits |-> d.portb]

InitFatal ==
    /\ DeviceInit
    /\ scene = CHOOSE sc \in Scenes : TRUE
    /\ \E m1 \in 1 .. Len(Measurements), m2 \in 1 .. Len(Measurements),
          n \in ShownNumbers :
          arg = [in_flight |-> Measurements[m1], start |-> Measurements[m2],
                 shown |-> n]
    /\ ret = {}

\* adc_start called while a measurement is in flight (main.rs:437-442)
FatalInFlight ==
    /\ ret' = ret \cup {Frozen("adc_start", adc_start(Situation, arg.start))}
    /\ ret' # ret
    /\ UNCHANGED << display, state, quantity, quality, adc_measuring, acc_l1,
                    acc_l2, pot_quantity, pot_quality, entropy, ocr0a, portd,
                    portb, admux, aden, adsc, halted, ticks, calls, pass,
                    scene, arg >>

\* the last arm of the match in render_settings (main.rs:239)
FatalFormat ==
    /\ ret' = ret \cup {Frozen("render_settings",
                               panic(Called(Situation, "render_settings")))}
    /\ ret' # ret
    /\ UNCHANGED << display, state, quantity, quality, adc_measuring, acc_l1,
                    acc_l2, pot_quantity, pot_quality, entropy, ocr0a, portd,
                    portb, admux, aden, adsc, halted, ticks, calls, pass,
                    scene, arg >>

NextFatal == FatalInFlight \/ FatalFormat

SpecFatal == InitFatal /\ [][NextFatal]_vars

(***************************************************************************)
(* An aggregator on its own: an Agg of capacity AggCap, built by new and   *)
(* then fed up to MaxPuts values.  arg is the aggregator with the number   *)
(* of puts made; ret holds what its queries return after the last put.     *)
(***************************************************************************)
AggValues == {0, 5, 1023}

Queries(a) ==
    [sum |-> [n \in 0 .. Agg_len(a) |-> Agg_sum_of_first(a, n)],
     amplitude |-> [n \in 0 .. Agg_len(a) |-> Agg_amplitude_of_first(a, n)],
     avg_full |-> Agg_avg_full(a),
     amplitude_full |-> Agg_amplitude_full(a)]

InitAgg ==
    /\ DeviceInit
    /\ scene = CHOOSE sc \in Scenes : TRUE
    /\ arg = [agg |-> Agg_new(AggCap), puts |-> 0]
    /\ ret = Queries(Agg_new(AggCap))

ApplyPut ==
    /\ arg.puts < MaxPuts
    /\ \E v \in AggValues :
          LET a == Agg_put(arg.agg, v)
          IN  /\ arg' = [agg |-> a, puts |-> arg.puts + 1]
              /\ ret' = Queries(a)
    /\ UNCHANGED << display, state, quantity, quality, adc_measuring, acc_l1,
                    acc_l2, pot_quantity, pot_quality, entropy, ocr0a, portd,
                    portb, admux, aden, adsc, halted, ticks, calls, pass,
                    scene >>

NextAgg == ApplyPut

SpecAgg == InitAgg /\ [][NextAgg]_vars

(***************************************************************************)
(* The generator on its own: for each bound the device uses (the values of *)
(* the QUALITY scale) every entropy byte 0 .. 255 is drawn once, in order. *)
(* ret keeps the last draw, how often each value came out and how many     *)
(* draws were rejected.                                                    *)
(***************************************************************************)
QualityBounds == {QUALITY[i].value : i \in 1 .. Len(QUALITY)}

InitRandom ==
    /\ DeviceInit
    /\ scene = CHOOSE sc \in Scenes : TRUE
    /\ \E b \in QualityBounds :
          /\ arg = [bound |-> b, entropy |-> 0]
          /\ ret = [last |-> <<>>, count |-> [v \in 0 .. b - 1 |-> 0],
                    rejected |-> 0]

ApplyGenerate ==
    /\ arg.entropy <= U8_MAX
    /\ LET r == generate(params_for(arg.bound), arg.entropy)
       IN  ret' = [last |-> << arg.entropy, r >>,
                   count |-> IF IsSome(r) /\ Unwrap(r) \in DOMAIN ret.count
                             THEN [ret.count EXCEPT ![Unwrap(r)] = @ + 1]
                             ELSE ret.count,
                   rejected |-> IF IsSome(r) THEN ret.rejected
                                ELSE ret.rejected + 1]
    /\ arg' = [arg EXCEPT !.entropy = @ + 1]
    /\ UNCHANGED << display, state, quantity, quality, adc_measuring, acc_l1,
                    acc_l2, pot_quantity, pot_quality, entropy, ocr0a, portd,
                    portb, admux, aden, adsc, halted, ticks, calls, pass,
                    scene >>

NextRandom == ApplyGenerate

SpecRandom == InitRandom /\ [][NextRandom]_vars

(***************************************************************************)
(* detect_zone_change on its own, as test_pot calls it: every zone of      *)
(* either scale as the current zone, every position up to MaxPosition,     *)
(* dead area DEAD_AREA.                                                    *)
(***************************************************************************)
InitZoneChange ==
    /\ DeviceInit
    /\ scene = CHOOSE sc \in Scenes : TRUE
    /\ \E name \in ScaleNames, i \in 1 .. Len(QUANTITY), p \in 0 .. MaxPosition :
          /\ i <= Len(Scale(name))
          /\ arg = [position |-> p, scale |-> name, current |-> i]
    /\ ret = <<>>

\* ret holds the Option detect_zone_change returns
ApplyDetectZoneChange ==
    /\ ret = <<>>
    /\ ret' = << detect_zone_change(arg.position, DEAD_AREA,
                                    Scale(arg.scale)[arg.current],
                                    Scale(arg.scale)) >>
    /\ UNCHANGED << display, state, quantity, quality, adc_measuring, acc_l1,
                    acc_l2, pot_quantity, pot_quality, entropy, ocr0a, portd,
                    portb, admux, aden, adsc, halted, ticks, calls, pass,
                    scene, arg >>

NextZoneChange == ApplyDetectZoneChange

SpecZoneChange == InitZoneChange /\ [][NextZoneChange]_vars

(***************************************************************************)
(* Vocabulary of the properties.  A step of TIMER0_COMPA is the step that  *)
(* counts a tick; every other step is a step of ADC, and the measurement   *)
(* it completes is the one in flight before it.                            *)
(***************************************************************************)
TickStep == ticks' = ticks + 1
AdcStep(m) == ticks' = ticks /\ adc_measuring = Some(m)

\* the calls of the last handler to the methods named in `names`, in order
CallsTo(log, names) == SelectSeq(log, LAMBDA c : c \in names)

\* `new` is `old` after one put of a value of `values`
PutOne(old, new, values) ==
    /\ IsSome(new.data[old.next_put_at])
    /\ Unwrap(new.data[old.next_put_at]) \in values
    /\ new.data = [old.data EXCEPT ![old.next_put_at] = new.data[old.next_put_at]]
    /\ new.next_put_at = (old.next_put_at + 1) % Cardinality(DOMAIN old.data)

\* a conversion of channel `chan` for measurement m is running
Started(m, chan) ==
    /\ adc_measuring' = Some(m)
    /\ admux' = chan
    /\ aden'
    /\ adsc'

\* the three level-2 amplitudes, when all are available
AmpsOf(l2) ==
    << Agg_amplitude_full(l2.x), Agg_amplitude_full(l2.y),
       Agg_amplitude_full(l2.z) >>
AmpsAvailable(l2) == \A i \in 1 .. 3 : IsSome(AmpsOf(l2)[i])
AnyDisturbed(l2) ==
    \E i \in 1 .. 3 : Unwrap(AmpsOf(l2)[i]) >= MIN_FORCE_AMPLITUDE

(***************************************************************************)
(* C1.  The sweep runs in the order knob-quantity, knob-quality, accel-X,  *)
(* accel-Y, accel-Z: a tick that is not fatal starts knob-quantity; the    *)
(* completion of a stage before accel-Z puts the sample into that stage's  *)
(* aggregator and starts the next stage; the completion of accel-Z puts    *)
(* the sample into the Z aggregator, starts nothing (no measurement in     *)
(* flight, converter disabled) and runs test_pots once and then            *)
(* test_acceleration once.                                                 *)
(***************************************************************************)
C1_SweepOrder ==
    [][ /\ (TickStep /\ ~halted') => Started("PotQuantity", "ADC3")
        /\ AdcStep("PotQuantity") =>
              /\ PutOne(pot_quantity, pot_quantity', scene.quantity)
              /\ Started("PotQuality", "ADC4")
              /\ UNCHANGED << pot_quality, acc_l1 >>
        /\ AdcStep("PotQuality") =>
              /\ PutOne(pot_quality, pot_quality', scene.quality)
              /\ Started("AccX", "ADC0")
              /\ UNCHANGED << pot_quantity, acc_l1 >>
        /\ AdcStep("AccX") =>
              /\ PutOne(acc_l1.x, acc_l1'.x, scene.x)
              /\ Started("AccY", "ADC1")
              /\ UNCHANGED << pot_quantity, pot_quality, acc_l1.y, acc_l1.z >>
        /\ AdcStep("AccY") =>
              /\ PutOne(acc_l1.y, acc_l1'.y, scene.y)
              /\ Started("AccZ", "ADC2")
              /\ UNCHANGED << pot_quantity, pot_quality, acc_l1.x, acc_l1.z >>
        /\ AdcStep("AccZ") =>
              /\ PutOne(acc_l1.z, acc_l1'.z, scene.z)
              /\ UNCHANGED << pot_quantity, pot_quality, acc_l1.x, acc_l1.y >>
              /\ adc_measuring' = None
              /\ ~adsc' /\ ~aden'
              /\ CallsTo(calls', {"adc_start"}) = <<>>
              /\ CallsTo(calls', {"test_pots", "test_acceleration"})
                     = << "test_pots", "test_acceleration" >>
      ]_vars

\* a sweep has ended: accel-Z completed, both passes ran, nothing in flight
C1_Witness ==
    /\ CallsTo(calls, {"test_pots", "test_acceleration"})
           = << "test_pots", "test_acceleration" >>
    /\ adc_measuring = None
    /\ AmpsAvailable(acc_l2)
    /\ ticks >= 2

(***************************************************************************)
(* C2.  A tick handled while a measurement is in flight is fatal: the      *)
(* device halts showing the error glyph on every digit, the in-flight      *)
(* marker keeps its value, and a halted device takes no further step.      *)
(***************************************************************************)
C2_FatalInFlight ==
    [][ /\ (TickStep /\ IsSome(adc_measuring)) =>
              /\ halted'
              /\ adc_measuring' = adc_measuring
              /\ portd' = ECHO
              /\ portb' = MASK_ALL
        /\ ~halted
      ]_vars

\* the device halted with the accel-X conversion of the sweep in flight
C2_Witness ==
    /\ halted
    /\ adc_measuring = Some("AccX")
    /\ portd = ECHO

(***************************************************************************)
(* Vocabulary of the evaluation passes.  The completion of accel-Z runs    *)
(* the settings pass and then the motion pass; `pass` holds what the         *)
(* settings pass left, which is what the motion pass starts from.  The     *)
(* motion pass reads the level-2 aggregators as the step leaves them.      *)
(***************************************************************************)
PassStep == AdcStep("AccZ") /\ ~halted'
Mid == Unwrap(pass')
Last == Unwrap(pass)
MotionPass(tag) ==
    PassStep /\ AmpsAvailable(acc_l2') /\ Mid.state.tag = tag
Known == IsSome(quantity') /\ IsSome(quality')
Rendered == CallsTo(calls', {"render_settings"}) # <<>>

\* the buffer shows n < 10000 right-aligned without leading zeros, with the
\* point on the last digit
ShowsNumber(buffer, n) ==
    \A i \in 0 .. 3 :
        LET p == 10 ^ (3 - i)
        IN  IF n < p /\ i < 3
            THEN buffer[i] = 0
            ELSE buffer[i] = SYMBOL_MAP[((n \div p) % 10) + 1]
                                 + (IF i = 3 THEN POINT ELSE 0)

\* the buffer shows the two settings (each below 100) around the separator,
\* or split by the point when both have two digits
ShowsSettings(buffer, qty, qlty) ==
    LET G(k) == SYMBOL_MAP[k + 1]
    IN  buffer =
          CASE qty < 10 /\ qlty < 10 -> Frame(0, G(qty), DELTA, G(qlty))
            [] qty >= 10 /\ qlty < 10 ->
                  Frame(G(qty \div 10), G(qty % 10), DELTA, G(qlty))
            [] qty < 10 /\ qlty >= 10 ->
                  Frame(G(qty), DELTA, G(qlty \div 10), G(qlty % 10))
            [] qty >= 10 /\ qlty >= 10 ->
                  Frame(G(qty \div 10), G(qty % 10) + POINT,
                        G(qlty \div 10), G(qlty % 10))

\* the arithmetic sum of slots 0 .. n-1, all holding a value
RECURSIVE SlotSum(_, _)
SlotSum(data, n) ==
    IF n = 0 THEN 0 ELSE Unwrap(data[n - 1]) + SlotSum(data, n - 1)
Populated(data, n) == \A i \in 0 .. n - 1 : IsSome(data[i])

(***************************************************************************)
(* C3.  A motion pass that starts in Displaying with some axis amplitude   *)
(* at or above the threshold sets idle_ticks to 0 and adds one to          *)
(* disturbed_ticks, and enters Rolling exactly when the new count exceeds  *)
(* TICKS_TO_DISTURB and both settings are known.  Displaying is left for   *)
(* Rolling in no other step.  The count such a pass starts from is the one *)
(* the last pass left, or 0 when the settings pass of the same step        *)
(* rendered a settings change; no other step changes it.                   *)
(***************************************************************************)
C3_ShakeToRolling ==
    [][ /\ (MotionPass("Displaying") /\ AnyDisturbed(acc_l2')) =>
              LET n == Mid.state.disturbed_ticks + 1
              IN  IF n > TICKS_TO_DISTURB /\ Known
                  THEN state'.tag = "Rolling"
                  ELSE state' = Displaying(n, 0)
        /\ (state.tag = "Displaying" /\ state'.tag = "Rolling") =>
              /\ MotionPass("Displaying")
              /\ AnyDisturbed(acc_l2')
              /\ state.disturbed_ticks + 1 > TICKS_TO_DISTURB
              /\ ~Rendered
              /\ Known
        /\ PassStep =>
              /\ Mid.entry = state
              /\ Mid.state = IF Rendered THEN Displaying(0, 0) ELSE state
        /\ (state.tag = "Displaying" /\ ~AdcStep("AccZ")) => state' = state
      ]_vars

\* Rolling was entered by a motion pass that started in Displaying
C3_Witness ==
    /\ state.tag = "Rolling"
    /\ pass # None
    /\ CallsTo(calls, {"enter_rolling"}) # <<>>
    /\ Last.state.tag = "Displaying"
    /\ Last.state.disturbed_ticks = TICKS_TO_DISTURB

(***************************************************************************)
(* C4.  A motion pass that starts in Rolling: with some axis disturbed it  *)
(* sets balanced_ticks to 0 and stays in Rolling; with all axes balanced   *)
(* it adds one to balanced_ticks and, when the count has reached           *)
(* TICKS_TO_BALANCE and the first `quantity` result slots all hold a       *)
(* value, shows their sum and enters Displaying with both counters 0;      *)
(* otherwise it stays in Rolling with the results and the buffer as they   *)
(* were.                                                                   *)
(***************************************************************************)
C4_RollSettles ==
    [][ MotionPass("Rolling") =>
          LET st == Mid.state
              b == st.balanced_ticks + 1
          IN  IF AnyDisturbed(acc_l2')
              THEN /\ state' = [st EXCEPT !.balanced_ticks = 0]
                   /\ display'.buffer = Mid.buffer
              ELSE IF b >= TICKS_TO_BALANCE
                      /\ Populated(st.results.data, st.quantity)
                   THEN /\ state' = Displaying(0, 0)
                        /\ ShowsNumber(display'.buffer,
                                       SlotSum(st.results.data, st.quantity))
                   ELSE /\ state' = [st EXCEPT !.balanced_ticks = b]
                        /\ display'.buffer = Mid.buffer
      ]_vars

\* a roll of two dice ended: the sum of two faces is on the display
C4_Witness ==
    /\ state = Displaying(0, 0)
    /\ pass # None
    /\ Last.state.tag = "Rolling"
    /\ Last.state.quantity = 2
    /\ \E n \in 2 .. 40 : ShowsNumber(display.buffer, n)

\* a settled roll was not ready: the pass stayed in Rolling to retry
C4_WitnessRetry ==
    /\ state.tag = "Rolling"
    /\ state.balanced_ticks >= TICKS_TO_BALANCE
    /\ ~Populated(state.results.data, state.quantity)

(***************************************************************************)
(* C5.  A motion pass that starts in Displaying with all three amplitudes  *)
(* below the threshold sets disturbed_ticks to 0 and adds one to           *)
(* idle_ticks; when the new count exceeds TICKS_TO_SLEEP the state becomes *)
(* Sleeping with disturbed_ticks 0, the timer runs at the sleeping rate    *)
(* and the display is forced off (no digit selected, no segment driven).   *)
(***************************************************************************)
C5_IdleToSleeping ==
    [][ (MotionPass("Displaying") /\ ~AnyDisturbed(acc_l2')) =>
          LET i == Mid.state.idle_ticks + 1
          IN  IF i > TICKS_TO_SLEEP
              THEN /\ state'.tag = "Sleeping"
                   /\ state'.disturbed_ticks = 0
                   /\ ocr0a' = OCR_SLEEPING
                   /\ portb' = 0
                   /\ portd' = 0
              ELSE state' = Displaying(0, i)
      ]_vars

\* the device fell asleep while a digit was being driven
C5_Witness ==
    /\ state.tag = "Sleeping"
    /\ pass # None
    /\ CallsTo(calls, {"enter_sleeping"}) # <<>>
    /\ Last.state = Displaying(0, TICKS_TO_SLEEP)
    /\ display.buffer # empty_buffer

(***************************************************************************)
(* C6.  A motion pass that starts in Sleeping: balanced, it sets           *)
(* disturbed_ticks to 0; disturbed, it adds one, and when the new count    *)
(* exceeds TICKS_TO_WAKE and both settings are known the state becomes     *)
(* Rolling with no result stored and balanced_ticks 0, and the timer runs  *)
(* at the normal rate when the step ends.  Otherwise the device stays in   *)
(* Sleeping.                                                               *)
(***************************************************************************)
C6_WakeToRolling ==
    [][ MotionPass("Sleeping") =>
          LET st == Mid.state
              n == st.disturbed_ticks + 1
          IN  IF ~AnyDisturbed(acc_l2')
              THEN state' = [st EXCEPT !.disturbed_ticks = 0]
              ELSE IF n > TICKS_TO_WAKE /\ Known
                   THEN /\ state'.tag = "Rolling"
                        /\ \A i \in DOMAIN state'.results.data :
                               state'.results.data[i] = None
                        /\ state'.results.next_put_at = 0
                        /\ state'.balanced_ticks = 0
                        /\ ocr0a' = OCR_NORMAL
                   ELSE state' = [st EXCEPT !.disturbed_ticks = n]
      ]_vars

\* a shake woke the device straight into Rolling
C6_Witness ==
    /\ state.tag = "Rolling"
    /\ pass # None
    /\ CallsTo(calls, {"enter_rolling"}) # <<>>
    /\ Last.state.tag = "Sleeping"

(***************************************************************************)
(* C7.  Whenever the device has not halted, the timer runs at the sleeping *)
(* rate exactly when the state is Sleeping.                                *)
(***************************************************************************)
C7_RateMatchesState ==
    ~halted => (ocr0a = OCR_SLEEPING <=> state.tag = "Sleeping")

\* a settings change woke the device: Sleeping was left for Displaying and
\* the normal rate restored
C7_Witness ==
    /\ ~halted
    /\ pass # None
    /\ Last.entry.tag = "Sleeping"
    /\ state.tag = "Displaying"
    /\ CallsTo(calls, {"enter_displaying", "timer_set_normal"})
           = << "enter_displaying", "timer_set_normal" >>
    /\ ocr0a = OCR_NORMAL

(***************************************************************************)
(* C8.  When a settings pass changes the quantity or the quality selection *)
(* and both are known after it, the pass leaves the buffer showing the new *)
(* pair, the state Displaying with both counters 0 and the timer at the    *)
(* normal rate, whatever the state was before.                             *)
(***************************************************************************)
C8_SettingsChange ==
    [][ (PassStep /\ Known /\ (quantity' # quantity \/ quality' # quality)) =>
          /\ Mid.state = Displaying(0, 0)
          /\ ShowsSettings(Mid.buffer, Unwrap(quantity').value,
                           Unwrap(quality').value)
          /\ Mid.ocr0a = OCR_NORMAL
          /\ CallsTo(calls', {"enter_rolling", "enter_sleeping"}) = <<>>
          /\ state'.tag = "Displaying"
          /\ display'.buffer = Mid.buffer
      ]_vars

\* a turn of the quality knob ended a roll: the new pair is on the display
C8_Witness ==
    /\ CallsTo(calls, {"render_settings"}) # <<>>
    /\ pass # None
    /\ Last.entry.tag = "Rolling"
    /\ Last.state = Displaying(0, 0)
    /\ Unwrap(quality).value # Last.entry.params.bound
    /\ ShowsSettings(Last.buffer, 2, Unwrap(quality).value)

\* a turn of the quantity knob woke the sleeping device
C8_WitnessWoken ==
    /\ CallsTo(calls, {"render_settings"}) # <<>>
    /\ pass # None
    /\ Last.entry.tag = "Sleeping"
    /\ Last.state = Displaying(0, 0)
    /\ ocr0a = OCR_NORMAL

(***************************************************************************)
(* C9.  A tick handled in Rolling calls generate once, on the low byte of  *)
(* the entropy and the bound of the roll: an accepted draw r (always for a *)
(* power of two, else a byte up to 255 - 255 mod bound) is put into the    *)
(* results as r + 1, a rejected draw leaves the results as they were.  A   *)
(* tick handled in Displaying or Sleeping calls no generate and leaves a   *)
(* state without results.  No tick changes the entropy.  Every result      *)
(* stored in a roll lies in 1 .. quality, the selected quality being the   *)
(* bound of the roll.                                                      *)
(***************************************************************************)
IsPowerOfTwo(b) == b \in {2 ^ k : k \in 0 .. 7}

C9_TickDraws ==
    [][ /\ TickStep =>
              /\ entropy' = entropy
              /\ IF state.tag = "Rolling"
                 THEN LET byte == entropy % 256
                          bound == state.params.bound
                          accepted == \/ IsPowerOfTwo(bound)
                                      \/ byte <= 255 - (255 % bound)
                      IN  /\ CallsTo(calls', {"generate"}) = << "generate" >>
                          /\ state'.tag = "Rolling"
                          /\ state'.params = state.params
                          /\ IF accepted
                             THEN PutOne(state.results, state'.results,
                                         {(byte % bound) + 1})
                             ELSE state'.results = state.results
                 ELSE /\ CallsTo(calls', {"generate"}) = <<>>
                      /\ state'.tag = state.tag
                      /\ state.tag = "Displaying" => state' = state
        /\ state'.tag = "Rolling" =>
              /\ Known
              /\ state'.params.bound = Unwrap(quality').value
              /\ \A i \in DOMAIN state'.results.data :
                     IsSome(state'.results.data[i]) =>
                         Unwrap(state'.results.data[i])
                             \in 1 .. Unwrap(quality').value
      ]_vars

\* a tick in Rolling whose draw was rejected after an accepted one
C9_Witness ==
    /\ state.tag = "Rolling"
    /\ calls # <<>> /\ calls[1] = "timer_interrupt"
    /\ ~halted
    /\ state.params.method.kind = "RemainderBelowLimit"
    /\ entropy % 256 > state.params.method.limit
    /\ Populated(state.results.data, 1)
    /\ ~Populated(state.results.data, 2)

(***************************************************************************)
(* C10.  On either scale every position in 0 .. 1023 lies in exactly one   *)
(* zone and detect_zone returns that zone; position 512 on QUANTITY gives  *)
(* the zone [512, 562] of value 10; detect_zone reaches its panic exactly  *)
(* for the positions above 1023.                                           *)
(***************************************************************************)
ZonesHolding(position, zones) ==
    {i \in 1 .. Len(zones) :
        zones[i].start <= position /\ position <= zones[i].end}

C10_DetectZoneTotal ==
    ret # <<>> =>
        LET zones == Scale(arg.scale)
            holding == ZonesHolding(arg.position, zones)
        IN  /\ arg.position <= 1023 =>
                  /\ Cardinality(holding) = 1
                  /\ \A i \in holding : ret[1] = Some(zones[i])
            /\ arg.position > 1023 => ret[1] = None
            /\ (arg.position = 512 /\ arg.scale = "QUANTITY") =>
                  ret[1] = Some([value |-> 10, start |-> 512, end |-> 562])

\* detect_zone returned the zone of value 10 for position 512 on QUANTITY
C10_Witness ==
    /\ arg # <<>>
    /\ arg.position = 512
    /\ arg.scale = "QUANTITY"
    /\ ret # <<>>
    /\ IsSome(ret[1])
    /\ Unwrap(ret[1]).value = 10

(***************************************************************************)
(* C11.  With dead area 10 and any zone [s, e] of either scale as current  *)
(* zone, detect_zone_change returns "no change" for every position p with  *)
(* max(0, s - 10) <= p <= e + 10; for the lowest zone (s <= 10) that is    *)
(* every p <= e + 10.                                                      *)
(***************************************************************************)
CurrentZone == Scale(arg.scale)[arg.current]

C11_DeadAreaHolds ==
    ret # <<>> =>
        LET s == CurrentZone.start
            e == CurrentZone.end
            low == IF s > DEAD_AREA THEN s - DEAD_AREA ELSE 0
        IN  (low <= arg.position /\ arg.position <= e + DEAD_AREA)
                => ret[1] = None

\* a position just inside the lower dead area of a zone that is not the
\* lowest: no change was returned
C11_Witness ==
    /\ ret # <<>>
    /\ CurrentZone.start > DEAD_AREA
    /\ arg.position = CurrentZone.start - DEAD_AREA
    /\ ret[1] = None

(***************************************************************************)
(* C12.  Every zone detect_zone_change returns differs from the current    *)
(* zone; for a current zone [s, e] with s > 10 the position s - 11 returns *)
(* a zone other than the current one, and so does e + 11 for every zone    *)
(* but the last.                                                           *)
(***************************************************************************)
C12_ChangeIsAnotherZone ==
    ret # <<>> =>
        LET s == CurrentZone.start
            e == CurrentZone.end
        IN  /\ IsSome(ret[1]) => Unwrap(ret[1]) # CurrentZone
            /\ (s > DEAD_AREA /\ arg.position = s - DEAD_AREA - 1)
                  => (IsSome(ret[1]) /\ Unwrap(ret[1]) # CurrentZone)
            /\ (arg.current < Len(Scale(arg.scale))
                /\ arg.position = e + DEAD_AREA + 1)
                  => (IsSome(ret[1]) /\ Unwrap(ret[1]) # CurrentZone)

(***************************************************************************)
(* C13.  For every bound b the device uses (4, 6, 8, 10, 12, 20) and every *)
(* entropy byte, generate(params_for(b), byte) is either unavailable or a  *)
(* value in 0 .. b - 1 equal to byte mod b; for the power-of-two bounds 4  *)
(* and 8 it is never unavailable.                                          *)
(***************************************************************************)
C13_DrawInRange ==
    ret.last # <<>> =>
        LET byte == ret.last[1]
            r == ret.last[2]
        IN  /\ arg.bound \in {4, 6, 8, 10, 12, 20}
            /\ IsSome(r) => /\ Unwrap(r) \in 0 .. arg.bound - 1
                            /\ Unwrap(r) = byte % arg.bound
            /\ arg.bound \in {4, 8} => IsSome(r)

\* the highest byte drawn for the power-of-two bound 4: a defined value
C13_Witness ==
    /\ arg.bound = 4
    /\ ret.last = << U8_MAX, Some(3) >>

(***************************************************************************)
(* C14.  For every bound b in {6, 10, 12, 20}, once all 256 entropy bytes  *)
(* have been drawn the number of accepted draws is 256 - (256 mod b) and   *)
(* every value in 0 .. b - 1 came out the same number of times.            *)
(***************************************************************************)
C14_NoModuloBias ==
    (arg.entropy = U8_MAX + 1 /\ arg.bound \in {6, 10, 12, 20}) =>
        /\ (U8_MAX + 1) - ret.rejected
              = (U8_MAX + 1) - ((U8_MAX + 1) % arg.bound)
        /\ \A v, w \in DOMAIN ret.count : ret.count[v] = ret.count[w]

(***************************************************************************)
(* C15.  For an aggregator of capacity N and every n <= N, after any       *)
(* sequence of puts sum_of_first(n) is unavailable if fewer than n puts    *)
(* have been made and otherwise is the arithmetic sum of the values now    *)
(* held in slots 0 .. n - 1, by index and not by recency.                  *)
(***************************************************************************)
C15_SumOfFirst ==
    \A n \in 0 .. AggCap :
        ret.sum[n] = IF arg.puts < n THEN None
                     ELSE Some(SlotSum(arg.agg.data, n))

\* the ring has wrapped: slot 0 holds the newest value, 1023, and the sum of
\* the first two slots counts it
C15_Witness ==
    /\ arg.puts = AggCap + 1
    /\ arg.agg.data[0] = Some(1023)
    /\ arg.agg.data[1] = Some(5)
    /\ ret.sum[2] = Some(1028)

(***************************************************************************)
(* C16.  After k puts on an aggregator of capacity N the write index is    *)
(* k mod N, exactly the slots below min(k, N) hold a value, and avg_full   *)
(* and amplitude_full are available exactly when k >= N; each put writes   *)
(* the slot at the write index and leaves every other slot as it was.      *)
(***************************************************************************)
RingShape(a, k, q) ==
    /\ a.next_put_at = k % AggCap
    /\ a.next_put_at \in 0 .. AggCap - 1
    /\ \A i \in 0 .. AggCap - 1 :
          IsSome(a.data[i]) <=> (i < k /\ i < AggCap)
    /\ IsSome(q.avg_full) <=> k >= AggCap
    /\ IsSome(q.amplitude_full) <=> k >= AggCap

C16_RingCursor ==
    [][ /\ RingShape(arg.agg, arg.puts, ret)
        /\ RingShape(arg'.agg, arg'.puts, ret')
        /\ arg'.puts = arg.puts + 1
        /\ \E v \in AggValues :
              arg'.agg.data = [arg.agg.data EXCEPT ![arg.agg.next_put_at] = Some(v)]
      ]_vars

\* a put on a full ring replaced the oldest value, the one in slot 0
C16_Witness ==
    /\ arg.puts = AggCap + 1
    /\ arg.agg.next_put_at = 1
    /\ arg.agg.data[0] = Some(1023)
    /\ arg.agg.data[1] = Some(0)
    /\ IsSome(ret.avg_full)

(***************************************************************************)
(* C17.  For 1 <= n <= N, amplitude_of_first(n) is available exactly when  *)
(* the first n slots hold values, and then it is the largest minus the     *)
(* smallest of the values in slots 0 .. n - 1, never negative.             *)
(***************************************************************************)
SlotValues(data, n) == {Unwrap(data[i]) : i \in 0 .. n - 1}
Largest(S) == CHOOSE x \in S : \A y \in S : y <= x
Smallest(S) == CHOOSE x \in S : \A y \in S : x <= y

C17_Amplitude ==
    \A n \in 1 .. AggCap :
        /\ IsSome(ret.amplitude[n]) <=> Populated(arg.agg.data, n)
        /\ IsSome(ret.amplitude[n]) =>
              LET S == SlotValues(arg.agg.data, n)
              IN  /\ Unwrap(ret.amplitude[n]) = Largest(S) - Smallest(S)
                  /\ Unwrap(ret.amplitude[n]) >= 0

\* the first two slots hold 1023 and 5: the amplitude is 1018
C17_Witness ==
    /\ arg.agg.data[0] = Some(1023)
    /\ arg.agg.data[1] = Some(5)
    /\ ret.amplitude[2] = Some(1018)

(***************************************************************************)
(* C18.  As claimed: for each accelerometer axis a level-1 average enters  *)
(* level 2 once per AGG_SIZE samples of the axis (when the level-1 write   *)
(* index has come round to 0), so level 2 is first full, and the motion    *)
(* pass first acts, after AGG_SIZE * AGG_SIZE sweeps.                      *)
(***************************************************************************)
Axes == { << "AccX", "x" >>, << "AccY", "y" >>, << "AccZ", "z" >> }

C18_OncePerWindow ==
    [][ /\ \A ax \in Axes :
              acc_l2'[ax[2]] # acc_l2[ax[2]] => acc_l1'[ax[2]].next_put_at = 0
        /\ (PassStep /\ AmpsAvailable(acc_l2')) => ticks >= AGG_SIZE * AGG_SIZE
      ]_vars

(***************************************************************************)
(* C18, amended.  A completion on an accelerometer axis puts the sample    *)
(* into level 1 of that axis and, whenever level 1 is then full (from the  *)
(* AGG_SIZE-th sample on, at every sample), puts the level-1 average into  *)
(* level 2; nothing else writes level 2.  Level 2 is therefore first full  *)
(* in the pass of sweep 2 * AGG_SIZE - 1; in earlier passes the motion     *)
(* pass leaves the state as the settings pass left it.                     *)
(***************************************************************************)
C18_PushEverySample ==
    [][ /\ \A ax \in Axes :
              IF AdcStep(ax[1])
              THEN LET l1 == acc_l1'[ax[2]]
                   IN  /\ PutOne(acc_l1[ax[2]], l1, 0 .. U16 - 1)
                       /\ IF Populated(l1.data, AGG_SIZE)
                          THEN PutOne(acc_l2[ax[2]], acc_l2'[ax[2]],
                                      {SlotSum(l1.data, AGG_SIZE) \div AGG_SIZE})
                          ELSE acc_l2'[ax[2]] = acc_l2[ax[2]]
              ELSE acc_l2'[ax[2]] = acc_l2[ax[2]]
        /\ PassStep =>
              /\ AmpsAvailable(acc_l2') <=> ticks >= 2 * AGG_SIZE - 1
              /\ ~AmpsAvailable(acc_l2') => state' = Mid.state
      ]_vars

\* the pass of sweep 2 * AGG_SIZE - 1 has run and found level 2 full
C18_Witness ==
    /\ ticks = 2 * AGG_SIZE - 1
    /\ pass # None
    /\ adc_measuring = None
    /\ ~halted
    /\ AmpsAvailable(acc_l2)
    /\ \A ax \in Axes : acc_l2[ax[2]].next_put_at = 0

(***************************************************************************)
(* C19.  The quantity and quality selections change only in the settings   *)
(* pass of a sweep.  After the pass of sweep k both are unknown when       *)
(* k < AGG_SIZE and both are known when k >= AGG_SIZE; in the pass of      *)
(* sweep AGG_SIZE each becomes the zone that holds the average of the      *)
(* knob's full window.  A known selection never becomes unknown again.     *)
(* (The pass of sweep k runs with ticks = k: every tick starts a sweep.)   *)
(***************************************************************************)
WindowAvg(pot) == SlotSum(pot.data, AGG_SIZE) \div AGG_SIZE
InZone(sel, position, zones) ==
    /\ IsSome(sel)
    /\ \E i \in ZonesHolding(position, zones) : Unwrap(sel) = zones[i]

C19_SettingsKnown ==
    [][ /\ IsSome(quantity) => IsSome(quantity')
        /\ IsSome(quality) => IsSome(quality')
        /\ ~PassStep => (quantity' = quantity /\ quality' = quality)
        /\ PassStep =>
              /\ IsSome(quantity') <=> ticks >= AGG_SIZE
              /\ IsSome(quality') <=> ticks >= AGG_SIZE
              /\ ticks = AGG_SIZE =>
                    /\ quantity = None
                    /\ quality = None
                    /\ InZone(quantity', WindowAvg(pot_quantity'), QUANTITY)
                    /\ InZone(quality', WindowAvg(pot_quality'), QUALITY)
      ]_vars

\* the pass of sweep AGG_SIZE has run: both selections are known, the
\* quantity knob at an average of 970 selecting 2 dice
C19_Witness ==
    /\ ticks = AGG_SIZE
    /\ pass # None
    /\ adc_measuring = None
    /\ IsSome(quantity)
    /\ IsSome(quality)
    /\ Unwrap(quantity).value = 2
    /\ 1000 \in {Unwrap(pot_quantity.data[i]) : i \in 0 .. AGG_SIZE - 1}

(***************************************************************************)
(* C20.  As claimed: the two fatal call sites (a measurement started while *)
(* one is in flight, the formatting case outside the four digit-count      *)
(* combinations) freeze the device with two distinct fixed patterns, one   *)
(* per call site.                                                          *)
(***************************************************************************)
Pattern(r) == << r.segments, r.digits >>

C20_DistinctGlyphs ==
    \A r1, r2 \in ret :
        /\ r1.halted
        /\ r1.site = r2.site => Pattern(r1) = Pattern(r2)
        /\ r1.site # r2.site => Pattern(r1) # Pattern(r2)

(***************************************************************************)
(* C20, amended.  Both fatal call sites freeze the device with one and the *)
(* same fixed pattern: the glyph ECHO on all four digits.                  *)
(***************************************************************************)
C20_SameGlyph ==
    \A r \in ret :
        /\ r.halted
        /\ r.segments = ECHO
        /\ r.digits = MASK_ALL

\* both call sites have been observed
C20_Witness ==
    {r.site : r \in ret} = {"adc_start", "render_settings"}

(***************************************************************************)
(* C21.  A conversion result v of accel-X, accel-Y or accel-Z changes the  *)
(* entropy accumulator from a to (a + v) mod 2^16; a result of the         *)
(* quantity or the quality knob leaves the accumulator as it was.          *)
(***************************************************************************)
C21_EntropyAccumulates ==
    ret # <<>> =>
        IF arg.m \in {"AccX", "AccY", "AccZ"}
        THEN entropy = (arg.entropy + ret[1]) % (2 ^ 16)
        ELSE entropy = arg.entropy

\* the accumulator wrapped: 65535 + 1023 gave 1022
C21_Witness ==
    /\ ret = << 1023 >>
    /\ arg.m = "AccY"
    /\ arg.entropy = 65535
    /\ entropy = 1022

(***************************************************************************)
(* C22.  Unavailable data is never fatal and changes nothing.  The         *)
(* completion of accel-Z in which some level-2 aggregator is not full      *)
(* leaves the state as the settings pass left it.  The completion of       *)
(* accel-Z in which each knob either has no full window or reports no      *)
(* change (its selection is known and the window average lies within the   *)
(* dead area around the selected zone) does not halt and leaves both       *)
(* selections, the state and the display buffer as they were when the      *)
(* settings pass began.                                                    *)
(***************************************************************************)
WindowFull(pot) == Populated(pot.data, AGG_SIZE)
Quiet(pot, sel) ==
    \/ ~WindowFull(pot)
    \/ /\ IsSome(sel)
       /\ ~(Unwrap(sel).start > DEAD_AREA
            /\ WindowAvg(pot) < Unwrap(sel).start - DEAD_AREA)
       /\ ~(WindowAvg(pot) > Unwrap(sel).end + DEAD_AREA)

C22_UnavailableChangesNothing ==
    [][ /\ (PassStep /\ ~AmpsAvailable(acc_l2')) => state' = Mid.state
        /\ (AdcStep("AccZ") /\ Quiet(pot_quantity, quantity)
                            /\ Quiet(pot_quality, quality)) =>
              /\ ~halted'
              /\ quantity' = quantity
              /\ quality' = quality
              /\ Mid.state = Mid.entry
              /\ Mid.buffer = display.buffer
              /\ ~Rendered
      ]_vars

\* a pass has run in Rolling with both windows full and no change reported:
\* the settings pass left the Rolling state and the spinner as they were
C22_Witness ==
    /\ pass # None
    /\ ~halted
    /\ Last.entry.tag = "Rolling"
    /\ Last.state = Last.entry
    /\ Last.buffer = display.buffer
    /\ WindowFull(pot_quantity) /\ WindowFull(pot_quality)
    /\ Quiet(pot_quantity, quantity) /\ Quiet(pot_quality, quality)
    /\ CallsTo(calls, {"render_settings"}) = <<>>

(***************************************************************************)
(* C23.  When every conversion of a sweep completes before the next tick   *)
(* (and handlers run one at a time), no measurement is in flight when a    *)
(* tick is handled, the in-flight marker names the measurement whose       *)
(* conversion was started last (it is set exactly while that conversion    *)
(* runs, on the channel of that measurement), and the device never halts.  *)
(***************************************************************************)
C23_TimelySweeps ==
    [][ /\ TickStep => (adc_measuring = None /\ Started("PotQuantity", "ADC3"))
        /\ ~halted'
        /\ adsc' <=> IsSome(adc_measuring')
        /\ IsSome(adc_measuring') =>
              (aden' /\ admux' = Channel(Unwrap(adc_measuring')))
        /\ \A i \in 1 .. Len(Measurements) - 1 :
              AdcStep(Measurements[i]) =>
                  adc_measuring' = Some(Measurements[i + 1])
        /\ AdcStep("AccZ") => adc_measuring' = None
      ]_vars

\* the tick of the fourth sweep was handled after three complete sweeps
C23_Witness ==
    /\ ticks = 4
    /\ adc_measuring = Some("PotQuantity")
    /\ adsc
    /\ ~halted
    /\ pass = None
    /\ AmpsAvailable(acc_l2)

(***************************************************************************)
(* C24.  While a knob's averaged position stays the same, at most the      *)
(* first settings pass reports a selection change for it: every later pass *)
(* reports no change and does not enter Displaying.                        *)
(***************************************************************************)
C24_StillKnobSettles ==
    \A k \in 2 .. Len(ret) :
        /\ ret[k].reported = None
        /\ ~ret[k].displaying

(***************************************************************************)
(* C25.  Once every motion pass finds all axes balanced and no selection   *)
(* changes, a device in Rolling eventually reaches Displaying showing a    *)
(* roll result, whatever the accelerometer values that fed the entropy     *)
(* accumulator.  (In SpecLong the axes are balanced from the second pass   *)
(* after the last shaken sweep on, and the knobs never move.)              *)
(***************************************************************************)
\* the largest quantity times the largest quality: 400
LargestResult == QUANTITY[1].value * QUALITY[1].value
ShowsResult == \E n \in 1 .. LargestResult : ShowsNumber(display.buffer, n)

C25_RollEnds ==
    (state.tag = "Rolling") ~> (state.tag = "Displaying" /\ ShowsResult)

(***************************************************************************)
(* C26.  No tick counter overflows: whenever the motion pass increments    *)
(* disturbed_ticks or balanced_ticks the counter is below 255 before the   *)
(* increment, and idle_ticks is below 65535.                               *)
(***************************************************************************)
C26_NoCounterOverflow ==
    [][ (PassStep /\ AmpsAvailable(acc_l2')) =>
          LET st == Mid.state
          IN  /\ (st.tag = "Rolling" /\ ~AnyDisturbed(acc_l2')) =>
                    st.balanced_ticks + 1 < U8
              /\ (st.tag \in {"Displaying", "Sleeping"} /\ AnyDisturbed(acc_l2'))
                    => st.disturbed_ticks + 1 < U8
              /\ (st.tag = "Displaying" /\ ~AnyDisturbed(acc_l2')) =>
                    st.idle_ticks + 1 < U16
      ]_vars

(***************************************************************************)
(* C27.  In every motion pass that finds all three level-2 amplitudes      *)
(* available both selections are known.  So a disturbed pass that takes    *)
(* disturbed_ticks past TICKS_TO_DISTURB in Displaying, or past            *)
(* TICKS_TO_WAKE in Sleeping, enters Rolling in that pass, and otherwise   *)
(* the pass leaves the device in the state it was in.                      *)
(***************************************************************************)
C27_ShakeAlwaysRolls ==
    [][ (PassStep /\ AmpsAvailable(acc_l2')) =>
          LET st == Mid.state
              shaken == AnyDisturbed(acc_l2')
          IN  /\ Known
              /\ (st.tag = "Displaying" /\ shaken) =>
                    IF st.disturbed_ticks + 1 > TICKS_TO_DISTURB
                    THEN state'.tag = "Rolling"
                    ELSE state' = Displaying(st.disturbed_ticks + 1, 0)
              /\ (st.tag = "Sleeping" /\ shaken) =>
                    IF st.disturbed_ticks + 1 > TICKS_TO_WAKE
                    THEN state'.tag = "Rolling"
                    ELSE state' = [st EXCEPT !.disturbed_ticks = @ + 1]
      ]_vars

\* a sleeping device was shaken past the wake threshold and is Rolling with
\* the selected settings
C27_Witness ==
    /\ pass # None
    /\ ~halted
    /\ Last.state.tag = "Sleeping"
    /\ Last.state.disturbed_ticks = TICKS_TO_WAKE
    /\ state.tag = "Rolling"
    /\ IsSome(quantity) /\ IsSome(quality)
    /\ CallsTo(calls, {"enter_rolling"}) # <<>>

(***************************************************************************)
(* C28.  Whenever the device is Rolling, the quantity of the roll is the   *)
(* value of the selected quantity zone and the bound of its generator is   *)
(* the value of the selected quality zone.  The results ring is empty when *)
(* Rolling is entered, and while the device stays Rolling a step either    *)
(* leaves the ring as it is or puts one draw in 1 .. bound into it.        *)
(***************************************************************************)
Entered == CallsTo(calls', {"enter_rolling"}) # <<>>

C28_RollSnapshot ==
    [][ /\ state'.tag = "Rolling" =>
              /\ Known
              /\ state'.quantity = Unwrap(quantity').value
              /\ state'.params.bound = Unwrap(quality').value
        /\ Entered =>
              /\ state'.tag = "Rolling"
              /\ state'.results = Agg_new(RESULTS_SIZE)
        /\ (state'.tag = "Rolling" /\ ~Entered) =>
              /\ state.tag = "Rolling"
              /\ \/ state'.results = state.results
                 \/ PutOne(state.results, state'.results,
                           1 .. state.params.bound)
      ]_vars

\* a running roll of 2 dice of 12 sides (the quality knob read 100 and 250
\* within one window) holds its first two draws
C28_Witness ==
    /\ ~halted
    /\ state.tag = "Rolling"
    /\ state.quantity = 2
    /\ state.params.bound = 12
    /\ Unwrap(quantity).value = 2
    /\ Unwrap(quality).value = 12
    /\ Populated(state.results.data, 2)
    /\ 100 \in {Unwrap(pot_quality.data[i]) : i \in 0 .. AGG_SIZE - 1}

(***************************************************************************)
(* C29.  In a roll whose bound is a power of two (and whose quantity is at *)
(* most TICKS_TO_BALANCE) every tick stores a draw, so a balanced motion   *)
(* pass that brings balanced_ticks to n finds at least n results stored;   *)
(* the first pass that brings balanced_ticks to TICKS_TO_BALANCE finds the *)
(* sum of the first `quantity` results available and ends the roll in that *)
(* pass, showing that sum.                                                 *)
(***************************************************************************)
Least(a, b) == IF a < b THEN a ELSE b

C29_PowerOfTwoEndsAtOnce ==
    [][ (/\ MotionPass("Rolling")
         /\ ~AnyDisturbed(acc_l2')
         /\ IsPowerOfTwo(Mid.state.params.bound)
         /\ Mid.state.quantity <= TICKS_TO_BALANCE) =>
          LET st == Mid.state
              n == st.balanced_ticks + 1
          IN  /\ n <= TICKS_TO_BALANCE
              /\ Populated(st.results.data, Least(n, RESULTS_SIZE))
              /\ IF n = TICKS_TO_BALANCE
                 THEN /\ state' = Displaying(0, 0)
                      /\ ShowsNumber(display'.buffer,
                                     SlotSum(st.results.data, st.quantity))
                 ELSE state' = [st EXCEPT !.balanced_ticks = n]
      ]_vars

\* a roll of 2 dice of 4 sides has ended in the pass that brought
\* balanced_ticks to TICKS_TO_BALANCE
C29_Witness ==
    /\ pass # None
    /\ ~halted
    /\ Last.state.tag = "Rolling"
    /\ Last.state.params.bound = 4
    /\ Last.state.quantity = 2
    /\ Last.state.balanced_ticks = TICKS_TO_BALANCE - 1
    /\ state = Displaying(0, 0)
    /\ \E n \in 2 .. 8 : ShowsNumber(display.buffer, n)

(***************************************************************************)
(* C30.  The number a motion pass shows when it ends a roll lies between   *)
(* quantity and quantity * bound, the settings the roll was entered with,  *)
(* and is at most 400.                                                     *)
(***************************************************************************)
C30_ResultInRange ==
    [][ (MotionPass("Rolling") /\ state'.tag = "Displaying") =>
          LET q == Mid.state.quantity
              b == Mid.state.params.bound
          IN  /\ q * b <= LargestResult
              /\ \E n \in q .. q * b : ShowsNumber(display'.buffer, n)
      ]_vars

\* a roll of 2 dice of 6 sides has ended and its result is on the display
C30_Witness ==
    /\ pass # None
    /\ ~halted
    /\ Last.state.tag = "Rolling"
    /\ Last.state.quantity = 2
    /\ Last.state.params.bound = 6
    /\ state.tag = "Displaying"
    /\ \E n \in 2 .. 12 : ShowsNumber(display.buffer, n)

(***************************************************************************)
(* C31.  The fatal formatting case of render_settings is unreachable: for  *)
(* every quantity value in 1 .. 20 and every quality value in              *)
(* {4, 6, 8, 10, 12, 20} each encoded digit count is 1 (value below 10) or *)
(* 2, the device is not halted and shows the two settings in one of the    *)
(* four layouts, and a glyph of the buffer carries the point exactly when  *)
(* both values have two digits.                                            *)
(***************************************************************************)
HasPoint(g) == (g \div POINT) % 2 = 1
Digits(v) == IF v < 10 THEN 1 ELSE 2

C31_FormatNeverFatal ==
    ret # <<>> =>
        /\ arg.quantity \in 1 .. 20
        /\ arg.quality \in {4, 6, 8, 10, 12, 20}
        /\ ret = << Digits(arg.quantity), Digits(arg.quality) >>
        /\ ~halted
        /\ calls = << "render_settings" >>
        /\ ShowsSettings(display.buffer, arg.quantity, arg.quality)
        /\ (\E i \in 0 .. 3 : HasPoint(display.buffer[i]))
              <=> (arg.quantity >= 10 /\ arg.quality >= 10)

\* 20 dice of 12 sides rendered: two digits each, the point on the second
\* glyph
C31_Witness ==
    /\ ret = << 2, 2 >>
    /\ arg = [quantity |-> 20, quality |-> 12]
    /\ ~halted
    /\ HasPoint(display.buffer[1])
    /\ ~HasPoint(display.buffer[3])

=============================================================================
